---------------------------- MODULE Spec2Model ----------------------------
(***************************************************************************)
(* Model of the flood-control data analysis pipeline (Rust variant):       *)
(*   model.rs       field parsers, median, round2                          *)
(*   controller.rs  load_file (two passes + year filter), generate_reports *)
(*   view/report1.rs, report2.rs, report3.rs, summary.rs  report builders  *)
(*   view/menu.rs   main_menu                                              *)
(*                                                                         *)
(* Text is a sequence of one-character strings; the two reference phrases  *)
(* "Clustered with Contract ID" and "MYCA with Project ID" and the month   *)
(* names are single tokens.  An f64 is an exact rational or one of NaN,    *)
(* +inf, -inf: rounding error of the binary format is not modelled, the    *)
(* IEEE rules for division by zero are.  An Option is a sequence of length *)
(* at most one.                                                            *)
(***************************************************************************)
EXTENDS Integers, Sequences, FiniteSets, TLC

(***************************************************************************)
(* Option<T>                                                               *)
(***************************************************************************)
None == <<>>

Some(v) == <<v>>

IsSome(o) == Len(o) = 1

IsNone(o) == Len(o) = 0

Unwrap(o) == o[1]

(***************************************************************************)
(* f64                                                                     *)
(***************************************************************************)
Abs(x) == IF x < 0 THEN -x ELSE x

RECURSIVE Gcd(_, _)
Gcd(a, b) == IF b = 0 THEN a ELSE Gcd(b, a % b)

\* the finite value n/d (d # 0) in lowest terms with a positive denominator
Fin(n, d) ==
    LET g == Gcd(Abs(n), Abs(d))
        s == IF d < 0 THEN -1 ELSE 1
    IN  [k |-> "fin", n |-> (s * n) \div g, d |-> Abs(d) \div g]

F(n) == [k |-> "fin", n |-> n, d |-> 1]

NaN == [k |-> "nan", n |-> 0, d |-> 1]

PosInf == [k |-> "inf", n |-> 1, d |-> 1]

NegInf == [k |-> "inf", n |-> -1, d |-> 1]

IsFinite(a) == a.k = "fin"

IsNaN(a) == a.k = "nan"

Sign(x) == IF x > 0 THEN 1 ELSE IF x < 0 THEN -1 ELSE 0

Inf(s) == IF s > 0 THEN PosInf ELSE NegInf

FNeg(a) == [a EXCEPT !.n = -a.n]

FAdd(a, b) ==
    IF IsNaN(a) \/ IsNaN(b) THEN NaN
    ELSE IF a.k = "inf" /\ b.k = "inf" THEN (IF a.n = b.n THEN a ELSE NaN)
    ELSE IF a.k = "inf" THEN a
    ELSE IF b.k = "inf" THEN b
    ELSE Fin(a.n * b.d + b.n * a.d, a.d * b.d)

FSub(a, b) == FAdd(a, FNeg(b))

FMul(a, b) ==
    IF IsNaN(a) \/ IsNaN(b) THEN NaN
    ELSE IF a.k = "inf" \/ b.k = "inf"
         THEN (IF a.n = 0 \/ b.n = 0 THEN NaN ELSE Inf(Sign(a.n) * Sign(b.n)))
    ELSE Fin(a.n * b.n, a.d * b.d)

\* IEEE division: x/0 is an infinity, 0/0 and inf/inf are NaN
FDiv(a, b) ==
    IF IsNaN(a) \/ IsNaN(b) THEN NaN
    ELSE IF a.k = "inf" /\ b.k = "inf" THEN NaN
    ELSE IF a.k = "inf" THEN Inf(a.n * (IF b.n < 0 THEN -1 ELSE 1))
    ELSE IF b.k = "inf" THEN F(0)
    ELSE IF b.n = 0 THEN (IF a.n = 0 THEN NaN ELSE Inf(Sign(a.n)))
    ELSE Fin(a.n * b.d, a.d * b.n)

\* a < b; every comparison with NaN is false
FLt(a, b) ==
    IF IsNaN(a) \/ IsNaN(b) THEN FALSE
    ELSE IF a.k = "inf" THEN a.n < 0 /\ ~(b.k = "inf" /\ b.n < 0)
    ELSE IF b.k = "inf" THEN b.n > 0
    ELSE a.n * b.d < b.n * a.d

FGt(a, b) == FLt(b, a)

FLe(a, b) == ~IsNaN(a) /\ ~IsNaN(b) /\ ~FLt(b, a)

\* f64::min / f64::max: a NaN operand is ignored
FMin(a, b) == IF IsNaN(a) THEN b ELSE IF IsNaN(b) THEN a ELSE IF FLt(b, a) THEN b ELSE a

FMax(a, b) == IF IsNaN(a) THEN b ELSE IF IsNaN(b) THEN a ELSE IF FLt(a, b) THEN b ELSE a

\* f64::round: to the nearest integer, halves away from zero
RoundHalfAway(n, d) ==
    LET q == (2 * Abs(n) + d) \div (2 * d)
    IN  IF n < 0 THEN -q ELSE q

round2(v) ==
    IF ~IsFinite(v) THEN v
    ELSE Fin(RoundHalfAway(v.n * 100, v.d), 100)


(***************************************************************************)
(* Text                                                                    *)
(***************************************************************************)
Digits == {"0", "1", "2", "3", "4", "5", "6", "7", "8", "9"}

DigitVal(c) ==
    CASE c = "0" -> 0 [] c = "1" -> 1 [] c = "2" -> 2 [] c = "3" -> 3
      [] c = "4" -> 4 [] c = "5" -> 5 [] c = "6" -> 6 [] c = "7" -> 7
      [] c = "8" -> 8 [] c = "9" -> 9

Letters == {"A", "B", "C", "x"}

Whitespace == {" "}

\* the two phrases the reference patterns start with, each one token
ClusterPhrase == "Clustered with Contract ID"

MycaPhrase == "MYCA with Project ID"

\* the regex class [\w\-.]
IdChars == Digits \cup Letters \cup {"_", "-", "."}

RECURSIVE TrimStart(_)
TrimStart(s) ==
    IF s # <<>> /\ Head(s) \in Whitespace THEN TrimStart(Tail(s)) ELSE s

RECURSIVE TrimEnd(_)
TrimEnd(s) ==
    IF s # <<>> /\ s[Len(s)] \in Whitespace
    THEN TrimEnd(SubSeq(s, 1, Len(s) - 1))
    ELSE s

\* str::trim
Trim(s) == TrimEnd(TrimStart(s))

\* str::replace(",", "")
RemoveCommas(s) == SelectSeq(s, LAMBDA c : c # ",")

\* the longest prefix of s made of characters of the class cs
RECURSIVE TakeWhile(_, _)
TakeWhile(s, cs) ==
    IF s # <<>> /\ Head(s) \in cs THEN <<Head(s)>> \o TakeWhile(Tail(s), cs) ELSE <<>>

Drop(s, n) == SubSeq(s, n + 1, Len(s))

RECURSIVE DigitsValue(_)
DigitsValue(s) ==
    IF s = <<>> THEN 0 ELSE 10 * DigitsValue(SubSeq(s, 1, Len(s) - 1)) + DigitVal(s[Len(s)])

RECURSIVE Pow10(_)
Pow10(n) == IF n = 0 THEN 1 ELSE 10 * Pow10(n - 1)

\* <f64 as FromStr>: [+-] digits [. digits], at least one digit; the
\* exponent form and the literals inf / nan are outside the alphabet
F64FromStr(s) ==
    LET neg  == s # <<>> /\ Head(s) = "-"
        body == IF s # <<>> /\ Head(s) \in {"-", "+"} THEN Tail(s) ELSE s
        ip   == TakeWhile(body, Digits)
        r1   == Drop(body, Len(ip))
        dot  == r1 # <<>> /\ Head(r1) = "."
        fp   == IF dot THEN TakeWhile(Tail(r1), Digits) ELSE <<>>
        rest == IF dot THEN Drop(r1, 1 + Len(fp)) ELSE r1
        mag  == Fin(DigitsValue(ip) * Pow10(Len(fp)) + DigitsValue(fp), Pow10(Len(fp)))
    IN  IF rest # <<>> \/ Len(ip) + Len(fp) = 0 THEN None
        ELSE Some(IF neg THEN FNeg(mag) ELSE mag)

parse_float(s) ==
    LET trimmed == RemoveCommas(Trim(s))
    IN  IF trimmed = <<>> THEN None ELSE F64FromStr(trimmed)

\* <i32 as FromStr>: [+-] digits, at least one digit, no overflow (the
\* alphabet's numbers stay below 10 digits)
I32FromStr(s) ==
    LET neg  == s # <<>> /\ Head(s) = "-"
        body == IF s # <<>> /\ Head(s) \in {"-", "+"} THEN Tail(s) ELSE s
        ds   == TakeWhile(body, Digits)
    IN  IF ds = <<>> \/ Len(ds) # Len(body) \/ Len(ds) > 9 THEN None
        ELSE Some(IF neg THEN -DigitsValue(ds) ELSE DigitsValue(ds))

parse_int(s) ==
    LET trimmed == Trim(s)
    IN  IF trimmed = <<>> THEN None ELSE I32FromStr(trimmed)

\* Regex `<phrase>\s+([\w\-.]+)`, unanchored: the capture group of the
\* leftmost match, None when the text has no match
MatchesAt(s, i, phrase) ==
    /\ s[i] = phrase
    /\ LET ws == TakeWhile(Drop(s, i), Whitespace)
           r  == Drop(s, i + Len(ws))
       IN  ws # <<>> /\ r # <<>> /\ Head(r) \in IdChars

CaptureAt(s, i) ==
    LET ws == TakeWhile(Drop(s, i), Whitespace)
    IN  TakeWhile(Drop(s, i + Len(ws)), IdChars)

captures(phrase, s) ==
    LET hits == {i \in 1..Len(s) : MatchesAt(s, i, phrase)}
    IN  IF hits = {} THEN None
        ELSE Some(CaptureAt(s, CHOOSE i \in hits : \A j \in hits : i <= j))

(***************************************************************************)
(* Dates (chrono::NaiveDate)                                               *)
(***************************************************************************)
MonthNames ==
    {"Jan", "Feb", "Mar", "Apr", "May", "Jun", "Jul", "Aug", "Sep", "Oct", "Nov", "Dec",
     "January", "February", "March", "April", "June", "July", "August",
     "September", "October", "November", "December"}

\* chrono's %b and %B both accept the short and the long name
MonthOfName(t) ==
    CASE t \in {"Jan", "January"} -> 1 [] t \in {"Feb", "February"} -> 2
      [] t \in {"Mar", "March"} -> 3 [] t \in {"Apr", "April"} -> 4
      [] t = "May" -> 5 [] t \in {"Jun", "June"} -> 6
      [] t \in {"Jul", "July"} -> 7 [] t \in {"Aug", "August"} -> 8
      [] t \in {"Sep", "September"} -> 9 [] t \in {"Oct", "October"} -> 10
      [] t \in {"Nov", "November"} -> 11 [] t \in {"Dec", "December"} -> 12

IsLeap(y) == (y % 4 = 0 /\ y % 100 # 0) \/ y % 400 = 0

DaysInMonth(y, m) ==
    IF m = 2 THEN (IF IsLeap(y) THEN 29 ELSE 28)
    ELSE IF m \in {4, 6, 9, 11} THEN 30 ELSE 31

RECURSIVE DaysBeforeMonth(_, _)
DaysBeforeMonth(y, m) ==
    IF m = 1 THEN 0 ELSE DaysBeforeMonth(y, m - 1) + DaysInMonth(y, m - 1)

\* days from 0001-01-01 (proleptic Gregorian) to the date
DayNumber(date) ==
    LET p == date.year - 1
    IN  365 * p + (p \div 4) - (p \div 100) + (p \div 400)
          + DaysBeforeMonth(date.year, date.month) + date.day

\* (e - s).num_days()
NumDays(e, s) == DayNumber(e) - DayNumber(s)

\* scan::number(s, 1, width): up to width digits, at least one
ScanDigits(s, width) ==
    LET ds == TakeWhile(SubSeq(s, 1, IF Len(s) < width THEN Len(s) ELSE width), Digits)
    IN  [ok |-> ds # <<>>, val |-> DigitsValue(ds), rest |-> Drop(s, Len(ds))]

\* a numeric item skips leading whitespace
ScanNumber(s, width) == ScanDigits(TrimStart(s), width)

\* %Y: a signed year takes every digit that follows, an unsigned one at most 4
ScanYear(s) ==
    LET t == TrimStart(s)
    IN  IF t # <<>> /\ Head(t) = "-"
        THEN LET r == ScanDigits(Tail(t), Len(t)) IN [r EXCEPT !.val = -r.val]
        ELSE IF t # <<>> /\ Head(t) = "+"
        THEN ScanDigits(Tail(t), Len(t))
        ELSE ScanDigits(t, 4)

\* one item of a format applied to the parse state st = [ok, rest, year, month, day]
ParseItem(st, item) ==
    IF ~st.ok THEN st
    ELSE IF item \in {"%d", "%m", "%y"}
    THEN LET r == ScanNumber(st.rest, 2)
         IN  IF ~r.ok THEN [st EXCEPT !.ok = FALSE]
             ELSE IF item = "%d" THEN [st EXCEPT !.rest = r.rest, !.day = Some(r.val)]
             ELSE IF item = "%m" THEN [st EXCEPT !.rest = r.rest, !.month = Some(r.val)]
             ELSE [st EXCEPT !.rest = r.rest,
                             !.year = Some(r.val + (IF r.val < 70 THEN 2000 ELSE 1900))]
    ELSE IF item = "%Y"
    THEN LET r == ScanYear(st.rest)
         IN  IF ~r.ok THEN [st EXCEPT !.ok = FALSE]
             ELSE [st EXCEPT !.rest = r.rest, !.year = Some(r.val)]
    ELSE IF item \in {"%b", "%B"}
    THEN IF st.rest # <<>> /\ Head(st.rest) \in MonthNames
         THEN [st EXCEPT !.rest = Tail(st.rest), !.month = Some(MonthOfName(Head(st.rest)))]
         ELSE [st EXCEPT !.ok = FALSE]
    ELSE IF item = " "
    THEN [st EXCEPT !.rest = TrimStart(st.rest)]
    ELSE IF st.rest # <<>> /\ Head(st.rest) = item
         THEN [st EXCEPT !.rest = Tail(st.rest)]
         ELSE [st EXCEPT !.ok = FALSE]

RECURSIVE ParseItems(_, _)
ParseItems(st, items) ==
    IF items = <<>> THEN st ELSE ParseItems(ParseItem(st, Head(items)), Tail(items))

\* NaiveDate::parse_from_str(s, fmt): every item matches, nothing is left
\* over, and the fields form a date of the calendar
parse_from_str(s, items) ==
    LET st == ParseItems([ok |-> TRUE, rest |-> s, year |-> None,
                          month |-> None, day |-> None], items)
    IN  IF /\ st.ok
           /\ st.rest = <<>>
           /\ IsSome(st.year) /\ IsSome(st.month) /\ IsSome(st.day)
           /\ Unwrap(st.month) \in 1..12
           /\ Unwrap(st.day) >= 1
           /\ Unwrap(st.day) <= DaysInMonth(Unwrap(st.year), Unwrap(st.month))
        THEN Some([year |-> Unwrap(st.year), month |-> Unwrap(st.month),
                   day |-> Unwrap(st.day)])
        ELSE None

\* the supported formats, in priority order
formats ==
    << <<"%d", "/", "%m", "/", "%Y">>,
       <<"%Y", "-", "%m", "-", "%d">>,
       <<"%m", "/", "%d", "/", "%Y">>,
       <<"%d", "-", "%b", "-", "%y">>,
       <<"%b", " ", "%d", ",", " ", "%Y">>,
       <<"%B", " ", "%d", ",", " ", "%Y">> >>

RECURSIVE TryFormats(_, _)
TryFormats(s, fs) ==
    IF fs = <<>> THEN None
    ELSE LET r == parse_from_str(s, Head(fs))
         IN  IF IsSome(r) THEN r ELSE TryFormats(s, Tail(fs))

try_parse_date(s) ==
    LET s_trim == Trim(s)
    IN  IF s_trim = <<>> THEN None ELSE TryFormats(s_trim, formats)

(***************************************************************************)
(* String helpers of the standard library, on single tokens                *)
(***************************************************************************)
\* char::to_lowercase on the tokens of the alphabet that have a lower case
LowerTok(t) ==
    CASE t = "A" -> "a" [] t = "B" -> "b" [] t = "C" -> "c"
      [] t = "Acme" -> "acme" [] t = "ACME" -> "acme"
      [] t = "Bild" -> "bild" [] t = "BILD" -> "bild"
      [] t = "Cebu" -> "cebu" [] t = "CEBU" -> "cebu"
      [] t = "Rizal" -> "rizal" [] t = "RIZAL" -> "rizal"
      [] t = ClusterPhrase -> "clustered with contract id"
      [] t = MycaPhrase -> "myca with project id"
      [] OTHER -> t

UpperTok(t) ==
    CASE t = "x" -> "X" [] t = "a" -> "A" [] t = "b" -> "B" [] t = "c" -> "C"
      [] t = "Acme" -> "ACME" [] t = "acme" -> "ACME"
      [] t = "Bild" -> "BILD" [] t = "bild" -> "BILD"
      [] t = "Cebu" -> "CEBU" [] t = "cebu" -> "CEBU"
      [] t = "Rizal" -> "RIZAL" [] t = "rizal" -> "RIZAL"
      [] t = ClusterPhrase -> "CLUSTERED WITH CONTRACT ID"
      [] t = MycaPhrase -> "MYCA WITH PROJECT ID"
      [] OTHER -> t

\* str::to_lowercase / str::to_uppercase
to_lowercase(s) == [i \in 1..Len(s) |-> LowerTok(s[i])]

to_uppercase(s) == [i \in 1..Len(s) |-> UpperTok(s[i])]

\* a column name is one token; its lower case
LowerName(h) ==
    CASE h = "ContractId" -> "contractid" [] h = "ProjectId" -> "projectid"
      [] h = "FundingYear" -> "fundingyear" [] h = "FUNDINGYEAR" -> "fundingyear"
      [] h = "Region" -> "region" [] h = "MainIsland" -> "mainisland"
      [] h = "Province" -> "province" [] h = "Contractor" -> "contractor"
      [] h = "TypeOfWork" -> "typeofwork"
      [] h = "ApprovedBudgetForContract" -> "approvedbudgetforcontract"
      [] h = "ContractCost" -> "contractcost"
      [] h = "StartDate" -> "startdate" [] h = "STARTDATE" -> "startdate"
      [] h = "ActualCompletionDate" -> "actualcompletiondate"
      [] h = "ProjectLatitude" -> "projectlatitude"
      [] h = "ProjectLongitude" -> "projectlongitude"
      [] OTHER -> h

(***************************************************************************)
(* HashMap                                                                 *)
(***************************************************************************)
EmptyMap == <<>>

\* HashMap::insert: a second insert under the same key replaces the value
Insert(m, key, v) == [x \in (DOMAIN m) \cup {key} |-> IF x = key THEN v ELSE m[x]]

\* HashMap::get(..).copied()
Get(m, key) == IF key \in DOMAIN m THEN Some(m[key]) ELSE None

(***************************************************************************)
(* controller.rs: load_file                                                *)
(***************************************************************************)
\* headers.iter().enumerate().map(|(i, h)| (h.to_lowercase(), i)).collect()
RECURSIVE HeaderMapFrom(_, _, _)
HeaderMapFrom(headers, i, m) ==
    IF i > Len(headers) THEN m
    ELSE HeaderMapFrom(headers, i + 1, Insert(m, LowerName(headers[i]), i))

HeaderMap(headers) == HeaderMapFrom(headers, 1, EmptyMap)

\* the closure `get`: the trimmed field under a column name, "" when the
\* header has no such column or the record is too short
get(hm, record, name) ==
    LET idx == Get(hm, LowerName(name))
    IN  IF IsSome(idx) /\ Unwrap(idx) <= Len(record)
        THEN Trim(record[Unwrap(idx)])
        ELSE <<>>

\* RegisterNumeric storing 0 when the text is no plain number
RegisterNumericOrZero(table, id, text) ==
    IF id # <<>>
    THEN Insert(table, id, IF IsSome(parse_float(text)) THEN Unwrap(parse_float(text)) ELSE F(0))
    ELSE table

\* RegisterNumeric without the test of the identifier
RegisterNumericAnyId(table, id, text) ==
    IF IsSome(parse_float(text))
    THEN Insert(table, id, Unwrap(parse_float(text)))
    ELSE table

\* pass 1 on one record: the four lookup tables after it
RegisterNumeric(table, id, text) ==
    IF id # <<>> /\ IsSome(parse_float(text))
    THEN Insert(table, id, Unwrap(parse_float(text)))
    ELSE table

\* ResolveField with the two lookup tables exchanged
ResolveFieldSwapped(raw, contract_table, project_table) ==
    LET direct == parse_float(raw)
        cl     == captures(ClusterPhrase, raw)
        my     == captures(MycaPhrase, raw)
    IN  IF IsSome(direct) THEN direct
        ELSE IF IsSome(cl) THEN Get(project_table, Unwrap(cl))
        ELSE IF IsSome(my) THEN Get(contract_table, Unwrap(my))
        ELSE None

\* pass 2: a field's value, from its own text or through a reference
ResolveField(raw, contract_table, project_table) ==
    LET direct == parse_float(raw)
        cl     == captures(ClusterPhrase, raw)
        my     == captures(MycaPhrase, raw)
    IN  IF IsSome(direct) THEN direct
        ELSE IF IsSome(cl) THEN Get(contract_table, Unwrap(cl))
        ELSE IF IsSome(my) THEN Get(project_table, Unwrap(my))
        ELSE None

\* CostSavings with a missing operand taken as 0
CostSavingsOrZero(budget, cost) ==
    Some(FSub(IF IsSome(budget) THEN Unwrap(budget) ELSE F(0),
              IF IsSome(cost) THEN Unwrap(cost) ELSE F(0)))

\* cost_savings: present only when both operands are
CostSavings(budget, cost) ==
    IF IsSome(budget) /\ IsSome(cost)
    THEN Some(FSub(Unwrap(budget), Unwrap(cost)))
    ELSE None

\* completion_delay_days: present only when both dates are
CompletionDelayDays(start, finish) ==
    IF IsSome(start) /\ IsSome(finish)
    THEN Some(NumDays(Unwrap(finish), Unwrap(start)))
    ELSE None

\* pass 2 on one record: the Project built from it
BuildProject(hm, record, cb, cc, pb, pcst) ==
    LET budget == ResolveField(get(hm, record, "ApprovedBudgetForContract"), cb, pb)
        cost   == ResolveField(get(hm, record, "ContractCost"), cc, pcst)
        start  == try_parse_date(get(hm, record, "StartDate"))
        finish == try_parse_date(get(hm, record, "ActualCompletionDate"))
    IN  [project_id                   |-> Some(get(hm, record, "ProjectId")),
         funding_year                 |-> parse_int(get(hm, record, "FundingYear")),
         region                       |-> Some(get(hm, record, "Region")),
         main_island                  |-> Some(get(hm, record, "MainIsland")),
         province                     |-> Some(get(hm, record, "Province")),
         contractor                   |-> Some(get(hm, record, "Contractor")),
         type_of_work                 |-> Some(get(hm, record, "TypeOfWork")),
         contract_id                  |-> Some(get(hm, record, "ContractId")),
         approved_budget_for_contract |-> budget,
         contract_cost                |-> cost,
         lat                          |-> parse_float(get(hm, record, "ProjectLatitude")),
         lon                          |-> parse_float(get(hm, record, "ProjectLongitude")),
         start_date                   |-> start,
         actual_completion_date       |-> finish,
         cost_savings                 |-> CostSavings(budget, cost),
         completion_delay_days        |-> CompletionDelayDays(start, finish)]

YearFrom == 2021

YearTo == 2023

\* InWindow on the funding year
InWindowByFundingYear(p) ==
    IF IsSome(p.funding_year)
    THEN Unwrap(p.funding_year) >= YearFrom /\ Unwrap(p.funding_year) <= YearTo
    ELSE FALSE

\* the year filter's predicate: the start date's year is in 2021..=2023
InWindow(p) ==
    IF IsSome(p.start_date)
    THEN Unwrap(p.start_date).year >= YearFrom /\ Unwrap(p.start_date).year <= YearTo
    ELSE FALSE

FilterProjects(ps) == SelectSeq(ps, InWindow)

\* RecordsExhausted leaving the loop after the first record
RecordsExhaustedEarly(position, records) == position > 1 \/ position > Len(records)

\* the `for result in rdr.records()` loop has consumed every record
RecordsExhausted(position, records) == position > Len(records)

(***************************************************************************)
(* Iterators, sorting, HashMap iteration order                             *)
(***************************************************************************)
\* filter_map(|p| p.<field>): the present values of a field, in order
Present(ps, field) ==
    LET having == SelectSeq(ps, LAMBDA p : IsSome(p[field]))
    IN  [i \in 1..Len(having) |-> Unwrap(having[i][field])]

\* Iterator::sum::<f64>().  The values are exact, so the sum is taken by
\* halves, which keeps the recursion shallow and gives the same result.
RECURSIVE SumF(_)
SumF(xs) ==
    IF xs = <<>> THEN F(0)
    ELSE IF Len(xs) = 1 THEN xs[1]
    ELSE FAdd(SumF(SubSeq(xs, 1, Len(xs) \div 2)),
              SumF(SubSeq(xs, (Len(xs) \div 2) + 1, Len(xs))))

\* .map(|d| d as f64)
AsF64(ds) == [i \in 1..Len(ds) |-> F(ds[i])]

\* one enumeration of a finite set
RECURSIVE Canon(_)
Canon(S) ==
    IF S = {} THEN <<>>
    ELSE LET x == CHOOSE x \in S : TRUE IN <<x>> \o Canon(S \ {x})

Rotate(q, n) == SubSeq(q, n + 1, Len(q)) \o SubSeq(q, 1, n)

Reverse(q) == [i \in 1..Len(q) |-> q[Len(q) + 1 - i]]

\* The orders in which a HashMap with key set S may be iterated.  The order
\* is unspecified; the model takes every rotation of one enumeration and its
\* reversal (all permutations up to three keys, and both relative orders of
\* every pair of keys beyond that).
IterationOrders(S) ==
    IF S = {} THEN {<<>>}
    ELSE LET c == Canon(S)
         IN  {Rotate(c, n) : n \in 0..(Cardinality(S) - 1)}
               \cup {Reverse(Rotate(c, n)) : n \in 0..(Cardinality(S) - 1)}

\* by_group.entry(key).or_insert_with(Vec::new).push(p), over all of ps
\* keys[i] being the key of ps[i]
GroupBy(ps, keys) ==
    LET keyed == [i \in DOMAIN ps |-> [key |-> keys[i], project |-> ps[i]]]
    IN  [g \in {keys[i] : i \in DOMAIN ps} |->
            LET members == SelectSeq(keyed, LAMBDA e : e.key = g)
            IN  [j \in DOMAIN members |-> members[j].project]]

\* ascending insertion of a float (slice::sort_by with partial_cmp)
RECURSIVE InsertAsc(_, _)
InsertAsc(sorted, x) ==
    IF sorted # <<>> /\ FLt(x, sorted[Len(sorted)])
    THEN InsertAsc(SubSeq(sorted, 1, Len(sorted) - 1), x) \o <<sorted[Len(sorted)]>>
    ELSE sorted \o <<x>>

RECURSIVE SortAsc(_)
SortAsc(xs) ==
    IF xs = <<>> THEN <<>> ELSE InsertAsc(SortAsc(SubSeq(xs, 1, Len(xs) - 1)), xs[Len(xs)])

\* stable descending sort of rows by a float field:
\* rows.sort_by(|a, b| b.f.partial_cmp(&a.f).unwrap_or(Equal))
RECURSIVE InsertDesc(_, _, _)
InsertDesc(sorted, r, f) ==
    IF sorted # <<>> /\ FLt(sorted[Len(sorted)][f], r[f])
    THEN InsertDesc(SubSeq(sorted, 1, Len(sorted) - 1), r, f) \o <<sorted[Len(sorted)]>>
    ELSE sorted \o <<r>>

RECURSIVE SortDescBy(_, _)
SortDescBy(rows, f) ==
    IF rows = <<>> THEN <<>>
    ELSE InsertDesc(SortDescBy(SubSeq(rows, 1, Len(rows) - 1), f), rows[Len(rows)], f)

(***************************************************************************)
(* model.rs: median                                                        *)
(***************************************************************************)
\* the middle taken from the slice as it came, without sorting it
MedianOfUnsorted(values) ==
    IF values = <<>> THEN F(0)
    ELSE LET n == Len(values)
         IN  IF n % 2 = 1 THEN values[(n \div 2) + 1]
             ELSE FDiv(FAdd(values[n \div 2], values[(n \div 2) + 1]), F(2))

median(values) ==
    IF values = <<>> THEN F(0)
    ELSE LET sorted == SortAsc(values)
             n      == Len(sorted)
         IN  IF n % 2 = 1 THEN sorted[(n \div 2) + 1]
             ELSE FDiv(FAdd(sorted[n \div 2], sorted[(n \div 2) + 1]), F(2))

(***************************************************************************)
(* view/report1.rs: report_regional_efficiency                             *)
(***************************************************************************)
Unknown == <<"Unknown">>

unwrap_or(o, dflt) == IF IsSome(o) THEN Unwrap(o) ELSE dflt

\* the report's own filter by the start date's year
Report1Filter(p) ==
    IF IsSome(p.start_date)
    THEN Unwrap(p.start_date).year >= YearFrom /\ Unwrap(p.start_date).year <= YearTo
    ELSE FALSE

\* format!("{}|{}", project_region, project_island)
Report1Key(p) ==
    unwrap_or(p.region, Unknown) \o <<"|">> \o unwrap_or(p.main_island, Unknown)

\* key.split('|'): the pieces between the separators
RECURSIVE Split(_, _)
Split(s, sep) ==
    LET hits == {i \in 1..Len(s) : s[i] = sep}
    IN  IF hits = {} THEN <<s>>
        ELSE LET i == CHOOSE i \in hits : \A j \in hits : i <= j
             IN  <<SubSeq(s, 1, i - 1)>> \o Split(Drop(s, i), sep)

HighDelayDays == 30

\* avg_delay of report 1 and of the summary: the mean of the present delays
MeanOrZero(delays) ==
    IF delays = <<>> THEN F(0) ELSE FDiv(SumF(delays), F(Len(delays)))

\* --- EfficiencyRaw
EfficiencyRaw(median_savings, avg_delay) ==
    IF FGt(avg_delay, F(0))
    THEN FMul(FDiv(median_savings, avg_delay), F(100))
    ELSE F(0)

\* the row of one group, its efficiency score still raw
Report1Row(key, group) ==
    LET parts          == Split(key, "|")
        savings        == Present(group, "cost_savings")
        median_savings == median(savings)
        delays         == AsF64(Present(group, "completion_delay_days"))
        avg_delay      == MeanOrZero(delays)
        high_count     == Len(SelectSeq(delays, LAMBDA d : FGt(d, F(HighDelayDays))))
        high_delay_pct == IF delays = <<>> THEN F(0)
                          ELSE FMul(FDiv(F(high_count), F(Len(delays))), F(100))
    IN  [region           |-> parts[1],
         main_island      |-> parts[2],
         total_budget     |-> round2(SumF(Present(group, "approved_budget_for_contract"))),
         median_savings   |-> round2(median_savings),
         avg_delay        |-> round2(avg_delay),
         high_delay_pct   |-> round2(high_delay_pct),
         efficiency_score |-> EfficiencyRaw(median_savings, avg_delay)]

\* valid_scores: the raw scores above zero
ValidScores(raws) == SelectSeq(raws, LAMBDA x : FGt(x, F(0)))

RECURSIVE FoldMin(_, _)
FoldMin(acc, xs) == IF xs = <<>> THEN acc ELSE FoldMin(FMin(acc, Head(xs)), Tail(xs))

RECURSIVE FoldMax(_, _)
FoldMax(acc, xs) == IF xs = <<>> THEN acc ELSE FoldMax(FMax(acc, Head(xs)), Tail(xs))

\* the least and greatest of all raw scores, the ones not above zero included
MinMaxOverAll(raws) ==
    IF raws = <<>> THEN <<F(0), F(1)>>
    ELSE <<FoldMin(PosInf, raws), FoldMax(NegInf, raws)>>

\* (min_score, max_score)
MinMax(raws) ==
    LET valid == ValidScores(raws)
    IN  IF valid = <<>> THEN <<F(0), F(1)>>
        ELSE <<FoldMin(PosInf, valid), FoldMax(NegInf, valid)>>

\* x > f64::EPSILON (2^-52).  Every finite value of the model has a
\* denominator below 2^31, so a positive one is above 2^-52.
GtEpsilon(x) ==
    IF IsNaN(x) THEN FALSE
    ELSE IF x.k = "inf" THEN x.n > 0
    ELSE x.n > 0

\* the rescaling without the test of max_score - min_score
NormalizeUnguarded(raw, min_score, max_score) ==
    IF FGt(raw, F(0))
    THEN FMul(FDiv(FSub(raw, min_score), FSub(max_score, min_score)), F(100))
    ELSE F(0)

\* the normalized score of one raw score, before rounding
Normalize(raw, min_score, max_score) ==
    IF FGt(raw, F(0)) /\ GtEpsilon(FSub(max_score, min_score))
    THEN FMul(FDiv(FSub(raw, min_score), FSub(max_score, min_score)), F(100))
    ELSE F(0)

\* the normalization loop over the raw scores of all rows, rounding included
NormalizeScores(raws) ==
    LET mm == MinMax(raws)
    IN  [i \in 1..Len(raws) |-> round2(Normalize(raws[i], mm[1], mm[2]))]

\* the rows of the report for one iteration order of by_group
Report1Rows(ps, order) ==
    LET filtered == SelectSeq(ps, Report1Filter)
        by_group == GroupBy(filtered, [i \in DOMAIN filtered |-> Report1Key(filtered[i])])
        rows     == [i \in 1..Len(order) |-> Report1Row(order[i], by_group[order[i]])]
        scores   == NormalizeScores([i \in 1..Len(rows) |-> rows[i].efficiency_score])
        normed   == [i \in 1..Len(rows) |-> [rows[i] EXCEPT !.efficiency_score = scores[i]]]
    IN  SortDescBy(normed, "efficiency_score")

Report1Keys(ps) == {Report1Key(ps[i]) : i \in {j \in DOMAIN ps : Report1Filter(ps[j])}}

(***************************************************************************)
(* view/report2.rs: report_top_contractors                                 *)
(***************************************************************************)
MinProjects == 5

TopN == 15

DelayScale == 90

RiskThreshold == 50

Report2Key(p) == unwrap_or(p.contractor, Unknown)

\* reliability index = (1 - (avg delay / 90)) * (total savings / total cost) * 100,
\* then capped to [0, 100] by two comparisons
Reliability(avg_delay, total_savings, total_cost) ==
    LET raw == FMul(FMul(FSub(F(1), FDiv(avg_delay, F(DelayScale))),
                         FDiv(total_savings, total_cost)), F(100))
        hi  == IF FGt(raw, F(100)) THEN F(100) ELSE raw
    IN  IF FLt(hi, F(0)) THEN F(0) ELSE hi

RiskFlag(reliability) == IF FLt(reliability, F(RiskThreshold)) THEN "High Risk" ELSE "OK"

\* avg_delay of report 2: the sum of the present delays over the group size
Report2AvgDelay(group) ==
    FDiv(SumF(AsF64(Present(group, "completion_delay_days"))), F(Len(group)))

Report2Row(contractor, group) ==
    LET avg_delay     == Report2AvgDelay(group)
        total_savings == SumF(Present(group, "cost_savings"))
        total_cost    == SumF(Present(group, "contract_cost"))
        reliability   == Reliability(avg_delay, total_savings, total_cost)
    IN  [contractor        |-> contractor,
         num_projects      |-> Len(group),
         reliability_index |-> round2(reliability),
         risk_flag         |-> RiskFlag(reliability),
         total_cost        |-> round2(total_cost),
         avg_delay         |-> round2(avg_delay),
         total_savings     |-> round2(total_savings)]

\* the threshold taken one project too low
QualifiesOffByOne(group) == Len(group) >= MinProjects - 1

\* if group.len() < 5 { continue; }
Qualifies(group) == Len(group) >= MinProjects

\* rows.truncate(15)
Truncate(rows, n) == SubSeq(rows, 1, IF Len(rows) < n THEN Len(rows) ELSE n)

Report2Rows(ps, order) ==
    LET by_contractor == GroupBy(ps, [i \in DOMAIN ps |-> Report2Key(ps[i])])
        kept          == SelectSeq(order, LAMBDA c : Qualifies(by_contractor[c]))
        rows          == [i \in 1..Len(kept) |-> Report2Row(kept[i], by_contractor[kept[i]])]
    IN  Truncate(SortDescBy(rows, "total_cost"), TopN)

Report2Keys(ps) == {Report2Key(ps[i]) : i \in DOMAIN ps}

(***************************************************************************)
(* view/report3.rs: report_annual_trends                                   *)
(***************************************************************************)
\* byte order of the tokens that occur in work-type names
TokRank(t) ==
    CASE t = " " -> 32 [] t = "," -> 44 [] t = "-" -> 45 [] t = "." -> 46
      [] t \in Digits -> 48 + DigitVal(t)
      [] t = "A" -> 65 [] t = "B" -> 66 [] t = "C" -> 67
      [] t = "_" -> 95 [] t = "x" -> 120 [] t = "|" -> 124
      [] OTHER -> 200

\* String's Ord: a < b lexicographically
RECURSIVE StrLess(_, _)
StrLess(a, b) ==
    IF b = <<>> THEN FALSE
    ELSE IF a = <<>> THEN TRUE
    ELSE IF TokRank(Head(a)) # TokRank(Head(b)) THEN TokRank(Head(a)) < TokRank(Head(b))
    ELSE StrLess(Tail(a), Tail(b))

\* the projects that have both a funding year and a work type
Report3Grouped(ps) ==
    SelectSeq(ps, LAMBDA p : IsSome(p.funding_year) /\ IsSome(p.type_of_work))

Report3Key(p) == <<Unwrap(p.funding_year), Unwrap(p.type_of_work)>>

\* avg_savings of report 3: the sum of the present savings over the group size
Report3AvgSavings(group) == FDiv(SumF(Present(group, "cost_savings")), F(Len(group)))

\* the year-over-year change of a row against the map of unrounded averages
YoYChange(curr, avg_savings_map, year, work) ==
    LET prev == Get(avg_savings_map, <<year - 1, work>>)
    IN  IF IsSome(prev) /\ Unwrap(prev) # F(0)
        THEN round2(FMul(FDiv(FSub(curr, Unwrap(prev)), Unwrap(prev)), F(100)))
        ELSE F(0)

\* a.year.cmp(&b.year).then(a.type_of_work.cmp(&b.type_of_work)) is Less
Report3Less(a, b) ==
    \/ a.year < b.year
    \/ a.year = b.year /\ StrLess(a.type_of_work, b.type_of_work)

RECURSIVE InsertRow3(_, _)
InsertRow3(sorted, r) ==
    IF sorted # <<>> /\ Report3Less(r, sorted[Len(sorted)])
    THEN InsertRow3(SubSeq(sorted, 1, Len(sorted) - 1), r) \o <<sorted[Len(sorted)]>>
    ELSE sorted \o <<r>>

RECURSIVE SortRows3(_)
SortRows3(rows) ==
    IF rows = <<>> THEN <<>>
    ELSE InsertRow3(SortRows3(SubSeq(rows, 1, Len(rows) - 1)), rows[Len(rows)])

Report3Rows(ps, order) ==
    LET grouped == Report3Grouped(ps)
        groups == GroupBy(grouped, [i \in DOMAIN grouped |-> Report3Key(grouped[i])])
        avg_savings_map == [g \in DOMAIN groups |-> Report3AvgSavings(groups[g])]
        rows == [i \in 1..Len(order) |->
                   LET g == order[i]
                   IN  [year           |-> g[1],
                        type_of_work   |-> g[2],
                        total_projects |-> Len(groups[g]),
                        avg_savings    |-> round2(avg_savings_map[g]),
                        overrun_rate   |-> round2(FDiv(avg_savings_map[g], F(100))),
                        yoy_change     |-> YoYChange(round2(avg_savings_map[g]),
                                                     avg_savings_map, g[1], g[2])]]
    IN  SortRows3(rows)

Report3Keys(ps) == {Report3Key(Report3Grouped(ps)[i]) : i \in DOMAIN Report3Grouped(ps)}

(***************************************************************************)
(* view/summary.rs: summary_json                                           *)
(***************************************************************************)
Contains(s, tok) == \E i \in 1..Len(s) : s[i] = tok

clean_contractor(name) ==
    LET n     == Trim(name)
        lower == to_lowercase(n)
    IN  IF n = <<>> THEN None
        ELSE IF Contains(lower, "clustered with contract id") THEN None
        ELSE IF Contains(lower, "myca with project id") THEN None
        ELSE Some(to_uppercase(n))

clean_province(name) ==
    LET n == Trim(name)
    IN  IF n = <<>> THEN None ELSE Some(to_uppercase(n))

\* the HashSet of the cleaned values that are present
CleanSet(cleaned) == {Unwrap(cleaned[i]) : i \in {j \in DOMAIN cleaned : IsSome(cleaned[j])}}

\* the average taken without looking whether there is any delay
GlobalAvgDelayUnguarded(ps) ==
    LET delays == AsF64(Present(ps, "completion_delay_days"))
    IN  FDiv(SumF(delays), F(Len(delays)))

\* Global Average Delay Days
GlobalAvgDelay(ps) ==
    LET delays == AsF64(Present(ps, "completion_delay_days"))
    IN  IF delays = <<>> THEN F(0) ELSE FDiv(SumF(delays), F(Len(delays)))

\* GlobalTotalSavings as total budget minus total cost
GlobalTotalSavingsOfTotals(ps) ==
    FSub(SumF(Present(ps, "approved_budget_for_contract")), SumF(Present(ps, "contract_cost")))

\* Total Savings
GlobalTotalSavings(ps) == SumF(Present(ps, "cost_savings"))

SummaryOf(ps) ==
    [total_projects        |-> Len(ps),
     total_contractors     |->
         Cardinality(CleanSet([i \in DOMAIN ps |->
             IF IsSome(ps[i].contractor) THEN clean_contractor(Unwrap(ps[i].contractor))
             ELSE None])),
     total_provinces       |->
         Cardinality(CleanSet([i \in DOMAIN ps |->
             IF IsSome(ps[i].province) THEN clean_province(Unwrap(ps[i].province))
             ELSE None])),
     global_avg_delay_days |-> GlobalAvgDelay(ps),
     global_total_savings  |-> GlobalTotalSavings(ps)]

(***************************************************************************)
(* The input file dpwh_flood_control_projects.csv                          *)
(***************************************************************************)
StdHeaders ==
    <<"ContractId", "ProjectId", "FundingYear", "Region", "MainIsland", "Province",
      "Contractor", "TypeOfWork", "ApprovedBudgetForContract", "ContractCost",
      "StartDate", "ActualCompletionDate", "ProjectLatitude", "ProjectLongitude">>

\* one record under StdHeaders
Rec(cid, pid, fy, region, island, province, contractor, work, budget, cost, start, finish) ==
    <<cid, pid, fy, region, island, province, contractor, work, budget, cost,
      start, finish, <<"1", "4", ".", "5">>, <<>> >>

RefCluster(id) == <<ClusterPhrase, " ">> \o id

RefMyca(id) == <<MycaPhrase, " ">> \o id

IdA == <<"A">>

IdB == <<"B">>

IdC == <<"C">>

\* the rows the files of the loader's specification are made of
RowNumeric ==
    Rec(IdA, <<>>, <<"2", "0", "2", "1">>, <<"NCR">>, <<"Luzon">>, <<"Rizal">>,
        <<"Acme">>, <<"A">>, <<"9">>, <<"4">>,
        <<"0", "1", "/", "0", "2", "/", "2", "0", "2", "1">>,
        <<"2", "0", "2", "1", "-", "0", "3", "-", "0", "1">>)

RowRefA ==
    Rec(IdB, IdA, <<" ", "2", "0", "2", "2">>, <<"NCR">>, <<"Luzon">>, <<"RIZAL">>,
        <<"ACME">>, <<"B">>, RefCluster(IdA), RefCluster(IdA),
        <<"1", "5", "/", "0", "6", "/", "2", "0", "2", "2">>,
        <<"2", "0", "/", "0", "6", "/", "2", "0", "2", "2">>)

RowRefB ==
    Rec(IdA, IdB, <<"2", "0", "2", "0">>, <<"Region VII">>, <<"Visayas">>, <<"Cebu">>,
        <<"Bild">>, <<"A">>, RefCluster(IdB), <<"7">>,
        <<"March", " ", "5", ",", " ", "2", "0", "2", "3">>, <<>>)

RowLate ==
    Rec(<<>>, IdA, <<"2", "0", "2", "2">>, <<"Region VII">>, <<"Visayas">>, <<"Cebu">>,
        <<"Bild">>, <<"B">>, <<"1", ",", "0", "0", "0">>, RefMyca(IdA),
        <<"January", " ", "5", ",", " ", "2", "0", "2", "4">>,
        <<"0", "2", "/", "0", "1", "/", "2", "0", "2", "4">>)

RowNoDate ==
    Rec(IdA, <<>>, <<"2", "0", "2", "1">>, <<>>, <<"Luzon">>, <<>>,
        <<>>, <<"A">>, <<"8">>, <<>>,
        <<>>, <<"2", "0", "2", "1", "-", "0", "3", "-", "0", "1">>)

RowEarly ==
    Rec(<<>>, <<>>, <<"2", "0", "2", "1">>, <<"NCR">>, <<"Luzon">>, <<"Rizal">>,
        <<ClusterPhrase, " ", "A">>, <<"A">>, RefMyca(IdA), RefCluster(IdB),
        <<"3", "1", "-", "Dec", "-", "2", "0">>,
        <<"0", "1", "/", "0", "2", "/", "2", "0", "2", "1">>)

RowPalette == {RowNumeric, RowRefA, RowRefB, RowLate, RowNoDate, RowEarly}

MaxRows == 3

\* every sequence of at most n rows of the palette
RECURSIVE SeqsUpTo(_, _)
SeqsUpTo(S, n) ==
    IF n = 0 THEN {<<>>}
    ELSE LET shorter == SeqsUpTo(S, n - 1)
         IN  shorter \cup {Append(q, x) : q \in {r \in shorter : Len(r) = n - 1}, x \in S}

Unreadable == [readable |-> FALSE, headers |-> <<>>, records |-> <<>>]

\* the columns the loader cannot do without
RequiredColumns == {"FundingYear", "ApprovedBudgetForContract", "ContractCost", "StartDate"}

\* a header row or a record without its i-th field
Without(q, i) == SubSeq(q, 1, i - 1) \o SubSeq(q, i + 1, Len(q))

\* files written without one of the required columns
LackingFiles ==
    {LET i == CHOOSE i \in DOMAIN StdHeaders : StdHeaders[i] = col
     IN  [readable |-> TRUE,
          headers  |-> Without(StdHeaders, i),
          records  |-> [k \in DOMAIN rs |-> Without(rs[k], i)]] :
        col \in RequiredColumns, rs \in SeqsUpTo(RowPalette, MaxRows - 1)}

Files ==
    {[readable |-> TRUE, headers |-> StdHeaders, records |-> rs] : rs \in SeqsUpTo(RowPalette, MaxRows)}
      \cup LackingFiles
      \cup {Unreadable}

(***************************************************************************)
(* load_file as one function of the file                                   *)
(***************************************************************************)
\* the table after the records lo..hi, in file order (by halves)
RECURSIVE Pass1Range(_, _, _, _, _, _, _)
Pass1Range(hm, records, idcol, valcol, lo, hi, table) ==
    IF lo > hi THEN table
    ELSE IF lo = hi
    THEN RegisterNumeric(table, get(hm, records[lo], idcol), get(hm, records[lo], valcol))
    ELSE LET mid == (lo + hi) \div 2
         IN  Pass1Range(hm, records, idcol, valcol, mid + 1, hi,
                        Pass1Range(hm, records, idcol, valcol, lo, mid, table))

Pass1Table(hm, records, idcol, valcol, table) ==
    Pass1Range(hm, records, idcol, valcol, 1, Len(records), table)

AllProjects(f) ==
    LET hm == HeaderMap(f.headers)
        cb == Pass1Table(hm, f.records, "ContractId", "ApprovedBudgetForContract", EmptyMap)
        cc == Pass1Table(hm, f.records, "ContractId", "ContractCost", EmptyMap)
        pb == Pass1Table(hm, f.records, "ProjectId", "ApprovedBudgetForContract", EmptyMap)
        pcst == Pass1Table(hm, f.records, "ProjectId", "ContractCost", EmptyMap)
    IN  [i \in 1..Len(f.records) |-> BuildProject(hm, f.records[i], cb, cc, pb, pcst)]

LoadFile(f) == FilterProjects(AllProjects(f))

(***************************************************************************)
(* State                                                                   *)
(***************************************************************************)
VARIABLES
    pc,               \* where the program is: menu, pass1, pass2, report1..3, summary, exit
    choices,          \* the number of menu choices read so far
    file,             \* the content of dpwh_flood_control_projects.csv
    header_map,       \* load_file: lower-cased column name -> index
    raw_records,      \* load_file: the records kept for pass 2
    contract_budget,  \* load_file: contract id -> budget
    contract_cost,    \* load_file: contract id -> cost
    project_budget,   \* load_file: project id -> budget
    project_cost,     \* load_file: project id -> cost
    projects,         \* load_file: the projects built so far
    pos,              \* load_file: the next record of the running loop
    loaded_projects,  \* main_menu: Option<Vec<Project>>
    report1,          \* report1_regional_efficiency.csv, None until written
    report2,          \* report2_top_contractors.csv
    report3,          \* report3_annual_trends.csv
    summary,          \* summary.json
    median_input,     \* median: the slice it is given, sorted in place
    median_output     \* median: what it returned, None before the call

vars ==
    <<pc, choices, file, header_map, raw_records, contract_budget, contract_cost,
      project_budget, project_cost, projects, pos, loaded_projects,
      report1, report2, report3, summary, median_input, median_output>>

median_io == <<median_input, median_output>>

\* median is not being called on its own
NoMedianCall ==
    /\ median_input = <<>>
    /\ median_output = None

locals ==
    <<header_map, raw_records, contract_budget, contract_cost, project_budget,
      project_cost, projects, pos>>

outputs == <<report1, report2, report3, summary>>

MaxChoices == 3

NoLocals ==
    /\ header_map = EmptyMap
    /\ raw_records = <<>>
    /\ contract_budget = EmptyMap
    /\ contract_cost = EmptyMap
    /\ project_budget = EmptyMap
    /\ project_cost = EmptyMap
    /\ projects = <<>>
    /\ pos = 1

\* the locals of load_file go out of scope
DropLocals ==
    /\ header_map' = EmptyMap
    /\ raw_records' = <<>>
    /\ contract_budget' = EmptyMap
    /\ contract_cost' = EmptyMap
    /\ project_budget' = EmptyMap
    /\ project_cost' = EmptyMap
    /\ projects' = <<>>
    /\ pos' = 1

Init ==
    /\ pc = "menu"
    /\ choices = 0
    /\ file \in Files
    /\ NoLocals
    /\ loaded_projects = None
    /\ report1 = None
    /\ report2 = None
    /\ report3 = None
    /\ summary = None
    /\ NoMedianCall

\* choice "1": load_file starts; an unreadable file ends main_menu with the error
ChooseLoad ==
    /\ pc = "menu"
    /\ choices < MaxChoices
    /\ choices' = choices + 1
    /\ IF file.readable
       THEN /\ pc' = "pass1"
            /\ header_map' = HeaderMap(file.headers)
       ELSE /\ pc' = "exit"
            /\ header_map' = header_map
    /\ UNCHANGED <<file, median_io, raw_records, contract_budget, contract_cost, project_budget,
                   project_cost, projects, pos, loaded_projects, outputs>>

\* 1. Collect contract and project lookups: one record of the first loop
Pass1Step ==
    /\ pc = "pass1"
    /\ ~RecordsExhausted(pos, file.records)
    /\ LET record      == file.records[pos]
           contract_id == get(header_map, record, "ContractId")
           project_id  == get(header_map, record, "ProjectId")
           budget      == get(header_map, record, "ApprovedBudgetForContract")
           cost        == get(header_map, record, "ContractCost")
       IN  /\ raw_records' = Append(raw_records, record)
           /\ contract_budget' = RegisterNumeric(contract_budget, contract_id, budget)
           /\ contract_cost' = RegisterNumeric(contract_cost, contract_id, cost)
           /\ project_budget' = RegisterNumeric(project_budget, project_id, budget)
           /\ project_cost' = RegisterNumeric(project_cost, project_id, cost)
    /\ pos' = pos + 1
    /\ UNCHANGED <<pc, choices, file, median_io, header_map, projects, loaded_projects, outputs>>

\* the first loop ends, the second starts
Pass1Exit ==
    /\ pc = "pass1"
    /\ RecordsExhausted(pos, file.records)
    /\ pc' = "pass2"
    /\ pos' = 1
    /\ UNCHANGED <<choices, file, median_io, header_map, raw_records, contract_budget, contract_cost,
                   project_budget, project_cost, projects, loaded_projects, outputs>>

\* 2. Resolve cluster/MYCA references and build Project structs: one record
Pass2Step ==
    /\ pc = "pass2"
    /\ pos <= Len(raw_records)
    /\ projects' = Append(projects,
                          BuildProject(header_map, raw_records[pos], contract_budget,
                                       contract_cost, project_budget, project_cost))
    /\ pos' = pos + 1
    /\ UNCHANGED <<pc, choices, file, median_io, header_map, raw_records, contract_budget,
                   contract_cost, project_budget, project_cost, loaded_projects, outputs>>

\* the year filter, and load_file returns to main_menu
FilterAndReturn ==
    /\ pc = "pass2"
    /\ pos > Len(raw_records)
    /\ loaded_projects' = Some(FilterProjects(projects))
    /\ pc' = "menu"
    /\ DropLocals
    /\ UNCHANGED <<choices, file, median_io, outputs>>

\* generate_reports entered without looking at loaded_projects
ChooseReportsUnguarded ==
    /\ pc = "menu"
    /\ choices < MaxChoices
    /\ choices' = choices + 1
    /\ pc' = "report1"
    /\ UNCHANGED <<file, median_io, locals, loaded_projects, outputs>>

\* choice "2": generate_reports when something is loaded
ChooseReports ==
    /\ pc = "menu"
    /\ choices < MaxChoices
    /\ choices' = choices + 1
    /\ pc' = IF IsSome(loaded_projects) THEN "report1" ELSE "menu"
    /\ UNCHANGED <<file, median_io, locals, loaded_projects, outputs>>

\* any other choice
InvalidChoice ==
    /\ pc = "menu"
    /\ choices < MaxChoices
    /\ choices' = choices + 1
    /\ UNCHANGED <<pc, file, median_io, locals, loaded_projects, outputs>>

ReportRegionalEfficiency ==
    /\ pc = "report1"
    /\ \E order \in IterationOrders(Report1Keys(Unwrap(loaded_projects))) :
          report1' = Some(Report1Rows(Unwrap(loaded_projects), order))
    /\ pc' = "report2"
    /\ UNCHANGED <<choices, file, median_io, locals, loaded_projects, report2, report3, summary>>

ReportTopContractors ==
    /\ pc = "report2"
    /\ \E order \in IterationOrders(Report2Keys(Unwrap(loaded_projects))) :
          report2' = Some(Report2Rows(Unwrap(loaded_projects), order))
    /\ pc' = "report3"
    /\ UNCHANGED <<choices, file, median_io, locals, loaded_projects, report1, report3, summary>>

ReportAnnualTrends ==
    /\ pc = "report3"
    /\ \E order \in IterationOrders(Report3Keys(Unwrap(loaded_projects))) :
          report3' = Some(Report3Rows(Unwrap(loaded_projects), order))
    /\ pc' = "summary"
    /\ UNCHANGED <<choices, file, median_io, locals, loaded_projects, report1, report2, summary>>

SummaryJson ==
    /\ pc = "summary"
    /\ summary' = Some(SummaryOf(Unwrap(loaded_projects)))
    /\ pc' = "menu"
    /\ UNCHANGED <<choices, file, median_io, locals, loaded_projects, report1, report2, report3>>

Next ==
    \/ ChooseLoad
    \/ Pass1Step
    \/ Pass1Exit
    \/ Pass2Step
    \/ FilterAndReturn
    \/ ChooseReports
    \/ InvalidChoice
    \/ ReportRegionalEfficiency
    \/ ReportTopContractors
    \/ ReportAnnualTrends
    \/ SummaryJson

Spec == Init /\ [][Next]_vars

(***************************************************************************)
(* Files for the report builders: many contractors, and small regional     *)
(* files with chosen savings and delays                                    *)
(***************************************************************************)
DigitChar(v) == CHOOSE c \in Digits : DigitVal(c) = v

RECURSIVE NatToText(_)
NatToText(n) == IF n < 10 THEN <<DigitChar(n)>> ELSE NatToText(n \div 10) \o <<DigitChar(n % 10)>>

TwoDigits(n) == <<DigitChar(n \div 10), DigitChar(n % 10)>>

\* the date as YYYY-MM-DD
IsoDate(y, m, d) == NatToText(y) \o <<"-">> \o TwoDigits(m) \o <<"-">> \o TwoDigits(d)

RECURSIVE Repeat(_, _)
Repeat(x, n) == IF n = 0 THEN <<>> ELSE <<x>> \o Repeat(x, n - 1)

\* a project of contractor number c: work starts on 2022-01-01 and ends
\* `delay` days later in January, a delay above 30 meaning no completion date
ContractorRow(c, budget, cost, delay) ==
    Rec(<<>>, <<>>, <<"2", "0", "2", "2">>, <<"R">> \o NatToText(c % 4),
        <<"Luzon">>, <<"Rizal">>,
        <<"C">> \o NatToText(c), <<"A">>, budget, cost,
        IsoDate(2022, 1, 1),
        IF delay > 30 THEN <<>> ELSE IsoDate(2022, 1, 1 + delay))

\* how many projects contractor c has under a size pattern
SizeOf(pattern, c) ==
    CASE pattern = "five"  -> MinProjects
      [] pattern = "mixed" -> (IF c % 9 = 0 THEN MinProjects - 1 ELSE MinProjects + (c % 2))

\* the cost text of the projects of contractor c under a cost pattern
CostOf(pattern, c) ==
    CASE pattern = "zero"   -> <<"0">>
      [] pattern = "none"   -> <<>>
      [] pattern = "rising" -> NatToText(c)
      [] pattern = "ties"   -> NatToText(1 + (c % 3))
      [] pattern = "wave"   -> NatToText(1 + ((c * 7) % 5))

BudgetOf(pattern, c) ==
    CASE pattern = "zero"   -> <<"2">>
      [] pattern = "none"   -> <<"2">>
      [] pattern = "rising" -> NatToText(c + 1 + (c % 2))
      [] pattern = "ties"   -> NatToText(3)
      [] pattern = "wave"   -> NatToText(3 + ((c * 7) % 5))

RECURSIVE ContractorRecords(_, _, _)
ContractorRecords(n, sizes, costs) ==
    IF n = 0 THEN <<>>
    ELSE ContractorRecords(n - 1, sizes, costs)
           \o Repeat(ContractorRow(n, BudgetOf(costs, n), CostOf(costs, n), (n * 9) % 45),
                     SizeOf(sizes, n))

MaxContractors == 17

ContractorFiles ==
    {[readable |-> TRUE, headers |-> StdHeaders, records |-> ContractorRecords(n, sizes, costs)] :
        n \in {1, MaxContractors - 1, MaxContractors},
        sizes \in {"five", "mixed"},
        costs \in {"zero", "none", "rising", "ties", "wave"}}

\* a project of a region with a saving (budget 5 + saving, cost 5) and a
\* delay counted from 2022-03-10; no completion date when has_end is FALSE
RegionRow(region, saving, delay, has_end) ==
    Rec(<<>>, <<>>, <<"2", "0", "2", "2">>, region, <<"Luzon">>, <<"Rizal">>,
        <<"Acme">>, <<"A">>, NatToText(5 + saving), <<"5">>,
        IsoDate(2022, 3, 10),
        IF has_end THEN IsoDate(2022, 3, 10 + delay) ELSE <<>>)

RegionPalette ==
    {RegionRow(<<"R1">>, 1, 10, TRUE),
     RegionRow(<<"R2">>, 2, 10, TRUE),
     RegionRow(<<"R3">>, 3, 10, TRUE),
     RegionRow(<<"R2">>, 2, 20, TRUE),
     RegionRow(<<"R3">>, 3, 0, FALSE),
     RegionRow(<<"R5">>, -3, 10, TRUE),
     RegionRow(<<"R6">>, 2, 0, TRUE),
     RegionRow(<<"R7">>, -2, -5, TRUE)}

MaxRegionRows == 3

RegionFiles ==
    {[readable |-> TRUE, headers |-> StdHeaders, records |-> rs] :
        rs \in SeqsUpTo(RegionPalette, MaxRegionRows)}

\* a project by the contractor's and the region's name
NamedRow(contractor, region, budget, cost, delay) ==
    Rec(<<>>, <<>>, <<"2", "0", "2", "2">>, region, <<"Luzon">>, <<"Rizal">>,
        contractor, <<"A">>, budget, cost,
        IsoDate(2022, 1, 1),
        IF delay > 30 THEN <<>> ELSE IsoDate(2022, 1, 1 + delay))

\* the projects of one contractor in one region, one per entry of delays
NamedGroup(contractor, region, budget, cost, delays) ==
    [i \in DOMAIN delays |-> NamedRow(contractor, region, budget, cost, delays[i])]

\* five projects without contractor and region, two of them not completed
BlankNames == NamedGroup(<<>>, <<>>, <<"3">>, <<"2">>, <<10, 10, 10, 36, 36>>)

\* five projects whose savings are 49.996 % of their cost
NearThreshold ==
    NamedGroup(<<"C", "1">>, <<"R", "1">>, <<"3", "7", "4", "9", "9">>,
               <<"2", "5", "0", "0", "0">>, <<0, 0, 0, 0, 0>>)

\* five projects of a named contractor, two of them not completed
PartlyCompleted == NamedGroup(<<"C", "2">>, <<"R", "2">>, <<"3">>, <<"2">>, <<10, 10, 10, 36, 36>>)

SpecialFiles ==
    {[readable |-> TRUE, headers |-> StdHeaders, records |-> rs] :
        rs \in {BlankNames, NearThreshold, PartlyCompleted,
                BlankNames \o NearThreshold, PartlyCompleted \o NearThreshold}}

\* a project of a funding year and a work type, started in 2022, with its
\* budget; the cost is 5
TrendRow(year, work, budget) ==
    Rec(<<>>, <<>>, NatToText(year), <<"R", "1">>, <<"Luzon">>, <<"Rizal">>,
        <<"Acme">>, work, budget, <<"5">>, IsoDate(2022, 1, 1), <<>>)

TrendPalette ==
    {TrendRow(YearFrom, <<"A">>, <<"5">>),
     TrendRow(YearFrom, <<"A">>, <<"6">>),
     TrendRow(YearFrom, <<"A">>, <<"5", ".", "0", "0", "4">>),
     TrendRow(YearFrom + 1, <<"A">>, <<"7">>),
     TrendRow(YearFrom + 1, <<"A">>, <<"5", ".", "0", "0", "4">>),
     TrendRow(YearFrom + 1, <<"B">>, <<"8">>),
     TrendRow(YearTo, <<"B">>, <<"6">>)}

TrendFiles ==
    {[readable |-> TRUE, headers |-> StdHeaders, records |-> rs] :
        rs \in SeqsUpTo(TrendPalette, MaxRegionRows)}

ReportFiles == ContractorFiles \cup RegionFiles \cup SpecialFiles \cup TrendFiles

(***************************************************************************)
(* generate_reports on the collection a load returned                      *)
(***************************************************************************)
InitReports ==
    /\ pc = "report1"
    /\ choices = 2
    /\ file \in ReportFiles
    /\ NoLocals
    /\ loaded_projects = Some(LoadFile(file))
    /\ report1 = None
    /\ report2 = None
    /\ report3 = None
    /\ summary = None
    /\ NoMedianCall

NextReports ==
    \/ ReportRegionalEfficiency
    \/ ReportTopContractors
    \/ ReportAnnualTrends
    \/ SummaryJson

SpecReports == InitReports /\ [][NextReports]_vars

(***************************************************************************)
(* Properties of load_file                                                 *)
(***************************************************************************)
\* the trimmed text of a column of the i-th record of the file
RowText(i, col) == get(HeaderMap(file.headers), file.records[i], col)

IsNumeric(text) == IsSome(parse_float(text))

\* the rows of the file that declare identifier id in column idcol and have a
\* plain number in column valcol
Declaring(idcol, id, valcol) ==
    {j \in 1..Len(file.records) : RowText(j, idcol) = id /\ IsNumeric(RowText(j, valcol))}

\* the number registered under id: that of the last declaring row, if any
Registered(idcol, id, valcol) ==
    LET js == Declaring(idcol, id, valcol)
    IN  IF id = <<>> \/ js = {} THEN None
        ELSE parse_float(RowText(CHOOSE j \in js : \A k \in js : k <= j, valcol))

\* the text of valcol in row i is no plain number and refers to a contract id
IsClusterRef(i, valcol) ==
    ~IsNumeric(RowText(i, valcol)) /\ IsSome(captures(ClusterPhrase, RowText(i, valcol)))

ClusterTarget(i, valcol) == Unwrap(captures(ClusterPhrase, RowText(i, valcol)))

\* the text of valcol in row i refers to a project id (and to no contract id)
IsMycaRef(i, valcol) ==
    /\ ~IsNumeric(RowText(i, valcol))
    /\ IsNone(captures(ClusterPhrase, RowText(i, valcol)))
    /\ IsSome(captures(MycaPhrase, RowText(i, valcol)))

MycaTarget(i, valcol) == Unwrap(captures(MycaPhrase, RowText(i, valcol)))

\* the projects load_file has built so far are those of the first rows
Built == IF pc = "pass2" THEN 1..Len(projects) ELSE {}

\* C1: a budget text that is no plain number and holds "Clustered with
\* Contract ID X" resolves to the number pass 1 registered under contract id X
\* in the same file, and to nothing when no row registered one; the same for
\* the cost against the contract-cost table.
C1_ClusterReferenceResolved ==
    \A i \in Built :
        /\ IsClusterRef(i, "ApprovedBudgetForContract") =>
              /\ projects[i].approved_budget_for_contract
                    = Get(contract_budget, ClusterTarget(i, "ApprovedBudgetForContract"))
              /\ projects[i].approved_budget_for_contract
                    = Registered("ContractId", ClusterTarget(i, "ApprovedBudgetForContract"),
                                 "ApprovedBudgetForContract")
        /\ IsClusterRef(i, "ContractCost") =>
              /\ projects[i].contract_cost
                    = Get(contract_cost, ClusterTarget(i, "ContractCost"))
              /\ projects[i].contract_cost
                    = Registered("ContractId", ClusterTarget(i, "ContractCost"), "ContractCost")

\* a budget reference was resolved to a number and a cost reference to an
\* unknown identifier was left absent
C1_Witness ==
    /\ \E i \in Built :
          /\ IsClusterRef(i, "ApprovedBudgetForContract")
          /\ IsSome(projects[i].approved_budget_for_contract)
    /\ \E i \in Built :
          /\ IsClusterRef(i, "ContractCost")
          /\ Declaring("ContractId", ClusterTarget(i, "ContractCost"), "ContractCost") = {}
          /\ IsNone(projects[i].contract_cost)
    /\ \E i \in Built :
          /\ IsClusterRef(i, "ContractCost")
          /\ IsSome(projects[i].contract_cost)

\* C2: resolution does not depend on the position of the referenced row: when
\* pass 2 runs the tables hold every row of the file, and a reference to an
\* identifier declared by a later row resolves to that row's number.
C2_ForwardReferenceResolved ==
    pc = "pass2" =>
        /\ Len(raw_records) = Len(file.records)
        /\ \A j \in 1..Len(file.records) :
              /\ (RowText(j, "ContractId") # <<>> /\ IsNumeric(RowText(j, "ApprovedBudgetForContract")))
                    => RowText(j, "ContractId") \in DOMAIN contract_budget
              /\ (RowText(j, "ContractId") # <<>> /\ IsNumeric(RowText(j, "ContractCost")))
                    => RowText(j, "ContractId") \in DOMAIN contract_cost
              /\ (RowText(j, "ProjectId") # <<>> /\ IsNumeric(RowText(j, "ApprovedBudgetForContract")))
                    => RowText(j, "ProjectId") \in DOMAIN project_budget
              /\ (RowText(j, "ProjectId") # <<>> /\ IsNumeric(RowText(j, "ContractCost")))
                    => RowText(j, "ProjectId") \in DOMAIN project_cost
        /\ \A i \in 1..Len(file.records) : \A j \in 1..Len(file.records) :
              /\ (/\ i < j
                  /\ IsClusterRef(i, "ApprovedBudgetForContract")
                  /\ j \in Declaring("ContractId", ClusterTarget(i, "ApprovedBudgetForContract"),
                                     "ApprovedBudgetForContract"))
                    => Get(contract_budget, ClusterTarget(i, "ApprovedBudgetForContract"))
                         = Registered("ContractId", ClusterTarget(i, "ApprovedBudgetForContract"),
                                      "ApprovedBudgetForContract")
              /\ (/\ i < j
                  /\ i \in Built
                  /\ IsClusterRef(i, "ApprovedBudgetForContract")
                  /\ j \in Declaring("ContractId", ClusterTarget(i, "ApprovedBudgetForContract"),
                                     "ApprovedBudgetForContract"))
                    => projects[i].approved_budget_for_contract
                         = Registered("ContractId", ClusterTarget(i, "ApprovedBudgetForContract"),
                                      "ApprovedBudgetForContract")
              /\ (/\ i < j
                  /\ i \in Built
                  /\ IsMycaRef(i, "ContractCost")
                  /\ j \in Declaring("ProjectId", MycaTarget(i, "ContractCost"), "ContractCost"))
                    => projects[i].contract_cost
                         = Registered("ProjectId", MycaTarget(i, "ContractCost"), "ContractCost")

\* a row refers to a contract id that only a later row declares, and got its number
C2_Witness ==
    \E i \in Built :
        /\ IsClusterRef(i, "ApprovedBudgetForContract")
        /\ Declaring("ContractId", ClusterTarget(i, "ApprovedBudgetForContract"),
                     "ApprovedBudgetForContract") # {}
        /\ \A j \in Declaring("ContractId", ClusterTarget(i, "ApprovedBudgetForContract"),
                              "ApprovedBudgetForContract") : i < j
        /\ IsSome(projects[i].approved_budget_for_contract)

\* the rows that declare id in idcol, whatever their text in valcol
Rows(idcol, id) == {j \in 1..Len(file.records) : RowText(j, idcol) = id}

\* every row declaring id has a reference, not a number, in valcol
OnlyReferences(idcol, id, valcol) ==
    /\ Rows(idcol, id) # {}
    /\ \A j \in Rows(idcol, id) : IsClusterRef(j, valcol) \/ IsMycaRef(j, valcol)

\* the rows pass 1 has gone through
Scanned == IF pc = "pass1" THEN 1..(pos - 1) ELSE IF pc = "pass2" THEN 1..Len(file.records) ELSE {}

StoredOnlyFromNumbers(table, idcol, valcol) ==
    \A id \in DOMAIN table :
        \E j \in Scanned :
            /\ RowText(j, idcol) = id
            /\ IsNumeric(RowText(j, valcol))
            /\ id # <<>>

\* C3: resolution is single-hop: a field that refers to an identifier whose
\* declaring rows hold a reference themselves (self-reference and cycles
\* included) is absent, load_file raises no error on it, and pass 1 stores
\* values only for plain numbers.
C3_SingleHop ==
    /\ \A i \in Built :
          /\ (/\ IsClusterRef(i, "ApprovedBudgetForContract")
              /\ OnlyReferences("ContractId", ClusterTarget(i, "ApprovedBudgetForContract"),
                                "ApprovedBudgetForContract"))
                => IsNone(projects[i].approved_budget_for_contract)
          /\ (/\ IsClusterRef(i, "ContractCost")
              /\ OnlyReferences("ContractId", ClusterTarget(i, "ContractCost"), "ContractCost"))
                => IsNone(projects[i].contract_cost)
          /\ (/\ IsMycaRef(i, "ApprovedBudgetForContract")
              /\ OnlyReferences("ProjectId", MycaTarget(i, "ApprovedBudgetForContract"),
                                "ApprovedBudgetForContract"))
                => IsNone(projects[i].approved_budget_for_contract)
          /\ (/\ IsMycaRef(i, "ContractCost")
              /\ OnlyReferences("ProjectId", MycaTarget(i, "ContractCost"), "ContractCost"))
                => IsNone(projects[i].contract_cost)
    /\ StoredOnlyFromNumbers(contract_budget, "ContractId", "ApprovedBudgetForContract")
    /\ StoredOnlyFromNumbers(contract_cost, "ContractId", "ContractCost")
    /\ StoredOnlyFromNumbers(project_budget, "ProjectId", "ApprovedBudgetForContract")
    /\ StoredOnlyFromNumbers(project_cost, "ProjectId", "ContractCost")
    /\ (pc = "exit" => ~file.readable)

\* a two-row cycle (A refers to B, B refers to A) and a self-reference were
\* both left absent, and the load went on to return
C3_Witness ==
    /\ pc = "pass2"
    /\ pos > Len(raw_records)
    /\ \E i \in Built : \E j \in Built :
          /\ i # j
          /\ IsClusterRef(i, "ApprovedBudgetForContract")
          /\ IsClusterRef(j, "ApprovedBudgetForContract")
          /\ RowText(j, "ContractId") = ClusterTarget(i, "ApprovedBudgetForContract")
          /\ RowText(i, "ContractId") = ClusterTarget(j, "ApprovedBudgetForContract")
          /\ OnlyReferences("ContractId", ClusterTarget(i, "ApprovedBudgetForContract"),
                            "ApprovedBudgetForContract")
          /\ IsNone(projects[i].approved_budget_for_contract)
    /\ \E i \in Built :
          /\ IsMycaRef(i, "ContractCost")
          /\ RowText(i, "ProjectId") = MycaTarget(i, "ContractCost")
          /\ IsNone(projects[i].contract_cost)

\* every project load_file has built or returned
Produced ==
    {projects[i] : i \in DOMAIN projects}
      \cup (IF IsSome(loaded_projects)
            THEN {Unwrap(loaded_projects)[i] : i \in DOMAIN Unwrap(loaded_projects)}
            ELSE {})

\* C4: cost_savings is present exactly when budget and cost both are, and is
\* then budget minus cost; completion_delay_days is present exactly when both
\* dates are, and is then the whole days from start to completion; a missing
\* operand is never taken as zero.
C4_DerivedFieldsNeedBothOperands ==
    \A p \in Produced :
        /\ IsSome(p.cost_savings)
              <=> (IsSome(p.approved_budget_for_contract) /\ IsSome(p.contract_cost))
        /\ IsSome(p.cost_savings) =>
              FAdd(Unwrap(p.cost_savings), Unwrap(p.contract_cost))
                 = Unwrap(p.approved_budget_for_contract)
        /\ IsSome(p.completion_delay_days)
              <=> (IsSome(p.start_date) /\ IsSome(p.actual_completion_date))
        /\ IsSome(p.completion_delay_days) =>
              DayNumber(Unwrap(p.start_date)) + Unwrap(p.completion_delay_days)
                 = DayNumber(Unwrap(p.actual_completion_date))

\* one project with a budget but no cost, one with a start but no completion
\* date, and one with every operand, a saving and a delay
C4_Witness ==
    /\ \E p \in Produced :
          IsSome(p.approved_budget_for_contract) /\ IsNone(p.contract_cost) /\ IsNone(p.cost_savings)
    /\ \E p \in Produced :
          IsSome(p.start_date) /\ IsNone(p.actual_completion_date) /\ IsNone(p.completion_delay_days)
    /\ \E p \in Produced :
          /\ IsSome(p.cost_savings) /\ Unwrap(p.cost_savings) # F(0)
          /\ IsSome(p.completion_delay_days) /\ Unwrap(p.completion_delay_days) # 0

\* the rows of the file whose start date parses to a year of the window
RowsInWindow ==
    {i \in 1..Len(file.records) :
        LET d == try_parse_date(RowText(i, "StartDate"))
        IN  IsSome(d) /\ Unwrap(d).year \in YearFrom..YearTo}

Loaded == Unwrap(loaded_projects)

\* C5 as stated: the filter goes by the funding year, so no loaded project has
\* a funding year outside 2021..2023 and every row of funding year 2022 is kept.
C5_FilterByFundingYear ==
    IsSome(loaded_projects) =>
        /\ \A i \in DOMAIN Loaded :
              /\ IsSome(Loaded[i].funding_year)
              /\ Unwrap(Loaded[i].funding_year) \in YearFrom..YearTo
        /\ Len(Loaded) = Cardinality({i \in 1..Len(file.records) :
                                        LET y == parse_int(RowText(i, "FundingYear"))
                                        IN  IsSome(y) /\ Unwrap(y) \in YearFrom..YearTo})

\* C5 (amended): the filter goes by the year of the start date: the loaded
\* projects are the rows whose start date is present with a year in 2021..2023,
\* in file order; a row without a start date is dropped; the funding year
\* plays no part.
C5_FilterByStartDateYear ==
    IsSome(loaded_projects) =>
        /\ \A i \in DOMAIN Loaded :
              /\ IsSome(Loaded[i].start_date)
              /\ Unwrap(Loaded[i].start_date).year \in YearFrom..YearTo
        /\ Len(Loaded) = Cardinality(RowsInWindow)
        /\ \A i \in RowsInWindow :
              \E k \in DOMAIN Loaded :
                  /\ k = Cardinality({j \in RowsInWindow : j <= i})
                  /\ Loaded[k].start_date = try_parse_date(RowText(i, "StartDate"))
                  /\ Loaded[k].funding_year = parse_int(RowText(i, "FundingYear"))

\* a load kept a project of funding year 2020 and dropped one of funding year
\* 2022, one row without a start date and one that starts before the window
C5_Witness ==
    /\ IsSome(loaded_projects)
    /\ \E i \in DOMAIN Loaded : Loaded[i].funding_year = Some(2020)
    /\ \E i \in 1..Len(file.records) :
          /\ i \notin RowsInWindow
          /\ parse_int(RowText(i, "FundingYear")) = Some(2022)
    /\ \E i \in 1..Len(file.records) : RowText(i, "StartDate") = <<>>
    /\ Len(Loaded) = 1

RECURSIVE SavingsOfRows(_, _)
\* the sum of budget minus cost over the rows of I that have both
SavingsOfRows(all, I) ==
    IF I = {} THEN F(0)
    ELSE LET i == CHOOSE i \in I : TRUE
             p == all[i]
         IN  FAdd(SavingsOfRows(all, I \ {i}),
                  IF IsSome(p.approved_budget_for_contract) /\ IsSome(p.contract_cost)
                  THEN FSub(Unwrap(p.approved_budget_for_contract), Unwrap(p.contract_cost))
                  ELSE F(0))

\* C10: end to end, total_projects is the number of rows whose governing year
\* (the start date's) is in 2021..2023, and global_total_savings is the sum of
\* budget minus cost over those rows that have both after reference
\* resolution; the rows lacking one contribute nothing.
C10_SummaryTotals ==
    IsSome(summary) =>
        /\ Unwrap(summary).total_projects = Cardinality(RowsInWindow)
        /\ Unwrap(summary).global_total_savings
              = SavingsOfRows(AllProjects(file), RowsInWindow)

\* a summary over two kept rows, one with a saving through a resolved
\* reference and one lacking its budget, with a third row filtered out
C10_Witness ==
    /\ IsSome(summary)
    /\ Unwrap(summary).total_projects = 2
    /\ Len(file.records) = 3
    /\ Unwrap(summary).global_total_savings # F(0)
    /\ \E i \in RowsInWindow :
          /\ IsClusterRef(i, "ApprovedBudgetForContract")
          /\ IsSome(AllProjects(file)[i].cost_savings)
    /\ \E i \in RowsInWindow :
          /\ IsNone(AllProjects(file)[i].approved_budget_for_contract)
          /\ IsSome(AllProjects(file)[i].contract_cost)

(***************************************************************************)
(* Properties of the reports                                               *)
(***************************************************************************)
\* the filtered collection the reports were given
Collection == Unwrap(loaded_projects)

\* the projects of a contractor in the collection
ProjectsOf(c) == SelectSeq(Collection, LAMBDA p : Report2Key(p) = c)

\* per contractor of the collection: the number of projects, the sum of the
\* present contract costs, and the total cost a row carries
Contractors ==
    [c \in Report2Keys(Collection) |->
        LET cost_sum == SumF(Present(ProjectsOf(c), "contract_cost"))
        IN  [num_projects |-> Len(ProjectsOf(c)),
             cost_sum     |-> cost_sum,
             total_cost   |-> round2(cost_sum)]]

\* the contractors that have a row in report 2
Emitted2 == {Unwrap(report2)[i].contractor : i \in DOMAIN Unwrap(report2)}

\* C6: report_top_contractors emits at most 15 rows; every row belongs to a
\* contractor with at least 5 projects in the collection and carries that
\* contractor's total cost; the rows are in non-increasing order of total
\* cost; and no contractor with at least 5 projects that was left out has a
\* total cost strictly greater than that of an emitted row.  Total costs
\* are compared as the rows carry them, rounded to two decimals.
C6_TopContractors ==
    IsSome(report2) =>
        LET rows == Unwrap(report2)
            of   == Contractors
        IN  /\ Len(rows) <= TopN
            /\ \A i \in DOMAIN rows :
                  /\ of[rows[i].contractor].num_projects >= MinProjects
                  /\ rows[i].total_cost = of[rows[i].contractor].total_cost
            /\ \A i, j \in DOMAIN rows :
                  i < j => FLe(rows[j].total_cost, rows[i].total_cost)
            /\ \A c \in DOMAIN of \ Emitted2 :
                  of[c].num_projects >= MinProjects =>
                      \A i \in DOMAIN rows : ~FGt(of[c].total_cost, rows[i].total_cost)

\* fifteen rows of differing cost were emitted, a contractor with five
\* projects was cut off and a contractor with fewer than five was skipped
C6_Witness ==
    /\ IsSome(report2)
    /\ Len(Unwrap(report2)) = TopN
    /\ LET of == Contractors
       IN  /\ \E c \in DOMAIN of \ Emitted2 : of[c].num_projects >= MinProjects
           /\ \E c \in DOMAIN of : of[c].num_projects < MinProjects
    /\ \E i, j \in DOMAIN Unwrap(report2) :
          FLt(Unwrap(report2)[j].total_cost, Unwrap(report2)[i].total_cost)

\* the group key of a row of report 1
RowKey(r) == r.region \o <<"|">> \o r.main_island

\* per row of report 1: the raw efficiency score and the average delay of
\* the row's group, before any rounding
Raws ==
    LET rows   == Unwrap(report1)
        kept   == SelectSeq(Collection, Report1Filter)
        groups == GroupBy(kept, [i \in DOMAIN kept |-> Report1Key(kept[i])])
    IN  [i \in DOMAIN rows |->
            LET group == groups[RowKey(rows[i])]
            IN  [raw       |-> Report1Row(RowKey(rows[i]), group).efficiency_score,
                 avg_delay |-> MeanOrZero(AsF64(Present(group, "completion_delay_days")))]]

\* the raw scores above zero
PositiveRaws(raws) == {x \in {raws[i].raw : i \in DOMAIN raws} : FGt(x, F(0))}

LeastOf(S) == CHOOSE x \in S : \A y \in S : FLe(x, y)

GreatestOf(S) == CHOOSE x \in S : \A y \in S : FLe(y, x)

\* C7: in report_regional_efficiency the minimum and maximum are taken over
\* the raw scores above zero only; when max - min exceeds epsilon a raw score
\* above zero gets (raw - min)/(max - min) * 100, which the row keeps rounded
\* to two decimals, and a raw score not above zero gets 0.  So the least
\* positive raw score gets 0 and the greatest 100, raw scores 10, 20, 30 get
\* 0, 50, 100, and every score lies in [0, 100].
C7_Normalization ==
    IsSome(report1) =>
        LET rows     == Unwrap(report1)
            raws     == Raws
            positive == PositiveRaws(raws)
            least    == LeastOf(positive)
            greatest == GreatestOf(positive)
        IN  \A i \in DOMAIN rows :
                LET raw   == raws[i].raw
                    score == rows[i].efficiency_score
                IN  /\ ~FGt(raw, F(0)) => score = F(0)
                    /\ (FGt(raw, F(0)) /\ GtEpsilon(FSub(greatest, least))) =>
                          /\ score = round2(FMul(FDiv(FSub(raw, least),
                                                      FSub(greatest, least)), F(100)))
                          /\ raw = least => score = F(0)
                          /\ raw = greatest => score = F(100)
                    /\ positive = {F(10), F(20), F(30)} =>
                          /\ raw = F(10) => score = F(0)
                          /\ raw = F(20) => score = F(50)
                          /\ raw = F(30) => score = F(100)
                    /\ FLe(F(0), score) /\ FLe(score, F(100))

\* three groups with raw scores 10, 20 and 30 were scored 0, 50 and 100
C7_Witness ==
    /\ IsSome(report1)
    /\ Len(Unwrap(report1)) = 3
    /\ PositiveRaws(Raws) = {F(10), F(20), F(30)}
    /\ {Unwrap(report1)[i].efficiency_score : i \in DOMAIN Unwrap(report1)}
         = {F(0), F(50), F(100)}

\* C8: in report_regional_efficiency, when the raw scores above zero are all
\* equal (one group alone included) or there is none, every group's score
\* is exactly 0: no division by zero leaves a NaN or a 50 in a row.
C8_DegenerateScores ==
    IsSome(report1) =>
        (Cardinality(PositiveRaws(Raws)) <= 1 =>
            \A i \in DOMAIN Unwrap(report1) : Unwrap(report1)[i].efficiency_score = F(0))

\* two groups with the same raw score above zero were scored
C8_Witness ==
    /\ IsSome(report1)
    /\ LET raws == Raws
       IN  /\ Cardinality(PositiveRaws(raws)) = 1
           /\ \E i, j \in DOMAIN raws :
                 i # j /\ FGt(raws[i].raw, F(0)) /\ FGt(raws[j].raw, F(0))

\* C9: division by zero is guarded: in report_top_contractors a contractor
\* whose contract costs sum to 0 (none of them present, for one) has
\* reliability index 0, never NaN or an infinity; in
\* report_regional_efficiency a group whose average delay is 0 has raw
\* efficiency 0.
C9_DivisionGuarded ==
    /\ IsSome(report2) =>
          LET of == Contractors
          IN  \A i \in DOMAIN Unwrap(report2) :
                  of[Unwrap(report2)[i].contractor].cost_sum = F(0) =>
                      Unwrap(report2)[i].reliability_index = F(0)
    /\ IsSome(report1) =>
          LET raws == Raws
          IN  \A i \in DOMAIN raws :
                  raws[i].avg_delay = F(0) =>
                      /\ raws[i].raw = F(0)
                      /\ Unwrap(report1)[i].efficiency_score = F(0)

(***************************************************************************)
(* Properties of generate_reports on particular collections                *)
(***************************************************************************)
\* the summary of a dataset without projects
ZeroSummary ==
    [total_projects        |-> 0,
     total_contractors     |-> 0,
     total_provinces       |-> 0,
     global_avg_delay_days |-> F(0),
     global_total_savings  |-> F(0)]

\* C11: when the year filter leaves no project, generate_reports goes
\* through: each of its four steps can be taken, the three reports have no
\* data row, and the summary holds 0 for the three counts, for
\* global_avg_delay_days and for global_total_savings (no NaN from an empty
\* count).
C11_EmptyCollection ==
    (IsSome(loaded_projects) /\ Unwrap(loaded_projects) = <<>>) =>
        /\ pc # "exit"
        /\ pc = "report1" => ENABLED ReportRegionalEfficiency
        /\ pc = "report2" => ENABLED ReportTopContractors
        /\ pc = "report3" => ENABLED ReportAnnualTrends
        /\ pc = "summary" => ENABLED SummaryJson
        /\ IsSome(report1) => Unwrap(report1) = <<>>
        /\ IsSome(report2) => Unwrap(report2) = <<>>
        /\ IsSome(report3) => Unwrap(report3) = <<>>
        /\ IsSome(summary) => Unwrap(summary) = ZeroSummary

\* a file with rows, all of them outside the window, went through the three
\* reports and the summary
C11_Witness ==
    /\ IsSome(loaded_projects)
    /\ Unwrap(loaded_projects) = <<>>
    /\ Len(file.records) >= 2
    /\ IsSome(report1) /\ IsSome(report2) /\ IsSome(report3)
    /\ IsSome(summary)
    /\ pc = "menu"

(***************************************************************************)
(* Properties of load_file on incomplete input                             *)
(***************************************************************************)
\* the required columns the header row of the file does not have
MissingColumns ==
    {col \in RequiredColumns :
        \A i \in DOMAIN file.headers : LowerName(file.headers[i]) # LowerName(col)}

\* C12: when the header row lacks a required column load_file fails: it
\* returns no project collection, so nothing is loaded and no report is
\* written; the missing column is not read as an empty field of every row.
C12_MissingColumnIsFatal ==
    (file.readable /\ MissingColumns # {}) =>
        /\ loaded_projects = None
        /\ pc \notin {"pass2", "report1", "report2", "report3", "summary"}
        /\ report1 = None /\ report2 = None /\ report3 = None /\ summary = None

\* a categorical attribute that the input row left empty
Absent(o) == IsNone(o) \/ Unwrap(o) = <<>>

\* C13: a project whose Region, MainIsland or Contractor is absent is
\* grouped under "Unknown" by report_regional_efficiency and
\* report_top_contractors: no row is keyed by the empty string, and the
\* projects without a region (without a contractor, when they are five or
\* more and within the first fifteen) appear under "Unknown"; the Project
\* itself never holds the sentinel.
C13_UnknownSentinel ==
    /\ IsSome(loaded_projects) =>
          \A i \in DOMAIN Collection :
              /\ Collection[i].region # Some(Unknown)
              /\ Collection[i].main_island # Some(Unknown)
              /\ Collection[i].contractor # Some(Unknown)
    /\ IsSome(report1) =>
          /\ \A i \in DOMAIN Unwrap(report1) :
                /\ Unwrap(report1)[i].region # <<>>
                /\ Unwrap(report1)[i].main_island # <<>>
          /\ (\E k \in DOMAIN Collection :
                 Report1Filter(Collection[k]) /\ Absent(Collection[k].region))
                => \E i \in DOMAIN Unwrap(report1) : Unwrap(report1)[i].region = Unknown
    /\ IsSome(report2) =>
          /\ \A i \in DOMAIN Unwrap(report2) : Unwrap(report2)[i].contractor # <<>>
          /\ (Len(SelectSeq(Collection, LAMBDA p : Absent(p.contractor))) >= MinProjects
                 /\ Len(Unwrap(report2)) < TopN)
                => \E i \in DOMAIN Unwrap(report2) : Unwrap(report2)[i].contractor = Unknown

\* the projects of a funding year and a work type
TrendGroup(year, work) ==
    SelectSeq(Collection, LAMBDA p : p.funding_year = Some(year) /\ p.type_of_work = Some(work))

\* the average savings of a group, as the report takes it: the sum of the
\* present savings over the number of projects
TrendAverage(year, work) ==
    FDiv(SumF(Present(TrendGroup(year, work), "cost_savings")), F(Len(TrendGroup(year, work))))

\* C14: the rows of report_annual_trends ascend by year and then by work
\* type, and a row's year-over-year change is the percent change of its
\* group's average savings against the average of the same work type one
\* year earlier (to two decimals), and 0 when that year has no such group.
C14_AnnualTrends ==
    IsSome(report3) =>
        LET rows == Unwrap(report3)
        IN  /\ \A i, j \in DOMAIN rows : i < j => Report3Less(rows[i], rows[j])
            /\ \A i \in DOMAIN rows :
                  LET curr == TrendAverage(rows[i].year, rows[i].type_of_work)
                      prev == TrendAverage(rows[i].year - 1, rows[i].type_of_work)
                  IN  IF TrendGroup(rows[i].year - 1, rows[i].type_of_work) = <<>>
                      THEN rows[i].yoy_change = F(0)
                      ELSE prev # F(0) =>
                              rows[i].yoy_change
                                = round2(FMul(FDiv(FSub(curr, prev), prev), F(100)))

(***************************************************************************)
(* median called on its own                                                *)
(***************************************************************************)
MedianValues == {F(-1), F(1), F(2), F(3), F(4)}

MaxValues == 4

InitMedian ==
    /\ pc = "median"
    /\ choices = 0
    /\ file = Unreadable
    /\ NoLocals
    /\ loaded_projects = None
    /\ report1 = None
    /\ report2 = None
    /\ report3 = None
    /\ summary = None
    /\ median_input \in SeqsUpTo(MedianValues, MaxValues)
    /\ median_output = None

\* median(&mut values): the slice is sorted in place and the median returned
MedianCall ==
    /\ pc = "median"
    /\ median_output = None
    /\ median_input' = SortAsc(median_input)
    /\ median_output' = Some(median(median_input))
    /\ UNCHANGED <<pc, choices, file, locals, loaded_projects, outputs>>

NextMedian == MedianCall

SpecMedian == InitMedian /\ [][NextMedian]_vars

\* every arrangement of the elements of q
Arrangements(q) ==
    {[i \in DOMAIN q |-> q[p[i]]] :
        p \in {f \in [DOMAIN q -> DOMAIN q] : \A i, j \in DOMAIN q : f[i] = f[j] => i = j}}

\* the k-th element of q in ascending order
KthSmallest(q, k) ==
    CHOOSE x \in {q[i] : i \in DOMAIN q} :
        /\ Cardinality({i \in DOMAIN q : FLt(q[i], x)}) < k
        /\ Cardinality({i \in DOMAIN q : FLe(q[i], x)}) >= k

\* C15: median gives the same result for every arrangement of its input:
\* 0 for an empty slice, the middle element of the ascending order for an
\* odd length, the mean of the two middle elements for an even length; so
\* 1, 2, 3 give 2 and 1, 2, 3, 4 give 2.5.
C15_Median ==
    IsSome(median_output) =>
        \A q \in Arrangements(median_input) :
            LET n == Len(q)
            IN  /\ median(q) = Unwrap(median_output)
                /\ n = 0 => median(q) = F(0)
                /\ n % 2 = 1 => median(q) = KthSmallest(q, (n \div 2) + 1)
                /\ (n > 0 /\ n % 2 = 0) =>
                      median(q) = FDiv(FAdd(KthSmallest(q, n \div 2),
                                            KthSmallest(q, (n \div 2) + 1)), F(2))
                /\ {q[i] : i \in DOMAIN q} = {F(1), F(2), F(3)} /\ n = 3 => median(q) = F(2)
                /\ {q[i] : i \in DOMAIN q} = {F(1), F(2), F(3), F(4)} /\ n = 4 =>
                      median(q) = Fin(5, 2)

\* median returned 2.5 for the four values 1, 2, 3, 4
C15_Witness ==
    /\ median_output = Some(Fin(5, 2))
    /\ Len(median_input) = 4
    /\ {median_input[i] : i \in DOMAIN median_input} = {F(1), F(2), F(3), F(4)}

(***************************************************************************)
(* Properties of the two identifier namespaces                             *)
(***************************************************************************)
\* the non-empty identifiers of column idcol declared with a plain number in
\* column valcol
DeclaredIds(idcol, valcol) ==
    {RowText(j, idcol) : j \in {k \in 1..Len(file.records) :
                                  RowText(k, idcol) # <<>> /\ IsNumeric(RowText(k, valcol))}}

\* C16: the contract and project namespaces are separate: the empty string
\* is never a key of a lookup table; when pass 2 runs the contract tables
\* hold exactly the non-empty ContractIds declared with a number and the
\* project tables the non-empty ProjectIds; a cluster reference is resolved
\* from the contract tables only and a MYCA reference from the project
\* tables only, so a reference to an identifier declared in the other
\* namespace alone leaves the field absent.
C16_SeparateNamespaces ==
    /\ \A table \in {contract_budget, contract_cost, project_budget, project_cost} :
          <<>> \notin DOMAIN table
    /\ pc = "pass2" =>
          /\ DOMAIN contract_budget = DeclaredIds("ContractId", "ApprovedBudgetForContract")
          /\ DOMAIN contract_cost = DeclaredIds("ContractId", "ContractCost")
          /\ DOMAIN project_budget = DeclaredIds("ProjectId", "ApprovedBudgetForContract")
          /\ DOMAIN project_cost = DeclaredIds("ProjectId", "ContractCost")
    /\ \A i \in Built :
          /\ IsClusterRef(i, "ApprovedBudgetForContract") =>
                projects[i].approved_budget_for_contract
                  = Registered("ContractId", ClusterTarget(i, "ApprovedBudgetForContract"),
                               "ApprovedBudgetForContract")
          /\ IsClusterRef(i, "ContractCost") =>
                projects[i].contract_cost
                  = Registered("ContractId", ClusterTarget(i, "ContractCost"), "ContractCost")
          /\ IsMycaRef(i, "ApprovedBudgetForContract") =>
                projects[i].approved_budget_for_contract
                  = Registered("ProjectId", MycaTarget(i, "ApprovedBudgetForContract"),
                               "ApprovedBudgetForContract")
          /\ IsMycaRef(i, "ContractCost") =>
                projects[i].contract_cost
                  = Registered("ProjectId", MycaTarget(i, "ContractCost"), "ContractCost")

\* a cluster reference to an identifier only a project declares and a MYCA
\* reference to an identifier only a contract declares were both left
\* absent, in a file with a row that has no identifier at all
C16_Witness ==
    /\ \E i \in Built :
          /\ IsClusterRef(i, "ContractCost")
          /\ ClusterTarget(i, "ContractCost")
               \in DeclaredIds("ProjectId", "ContractCost")
                     \ DeclaredIds("ContractId", "ContractCost")
          /\ IsNone(projects[i].contract_cost)
    /\ \E i \in Built :
          /\ IsMycaRef(i, "ApprovedBudgetForContract")
          /\ MycaTarget(i, "ApprovedBudgetForContract")
               \in DeclaredIds("ContractId", "ApprovedBudgetForContract")
                     \ DeclaredIds("ProjectId", "ApprovedBudgetForContract")
          /\ IsNone(projects[i].approved_budget_for_contract)
    /\ \E j \in 1..Len(file.records) :
          RowText(j, "ContractId") = <<>> /\ RowText(j, "ProjectId") = <<>>

(***************************************************************************)
(* Properties of the metrics of the reports                                *)
(***************************************************************************)
\* the arithmetic mean of the delays that are present among the projects ps,
\* 0 when none is
MeanPresentDelay(ps) ==
    LET present == SelectSeq(ps, LAMBDA p : IsSome(p.completion_delay_days))
    IN  IF present = <<>> THEN F(0)
        ELSE FDiv(SumF([i \in DOMAIN present |-> F(Unwrap(present[i].completion_delay_days))]),
                  F(Len(present)))

\* C17: in report_regional_efficiency, in report_top_contractors and in the
\* summary, avg_delay is the sum of the delays present in the group divided
\* by the number of projects that have a delay, not by the group size, and
\* 0 when no project has one (the rows carry it to two decimals).
C17_AverageDelay ==
    /\ IsSome(report1) =>
          LET kept == SelectSeq(Collection, Report1Filter)
          IN  \A i \in DOMAIN Unwrap(report1) :
                  Unwrap(report1)[i].avg_delay
                    = round2(MeanPresentDelay(
                        SelectSeq(kept, LAMBDA p : Report1Key(p) = RowKey(Unwrap(report1)[i]))))
    /\ IsSome(report2) =>
          \A i \in DOMAIN Unwrap(report2) :
              Unwrap(report2)[i].avg_delay
                = round2(MeanPresentDelay(ProjectsOf(Unwrap(report2)[i].contractor)))
    /\ IsSome(summary) =>
          Unwrap(summary).global_avg_delay_days = MeanPresentDelay(Collection)

\* per row of report 1: the median of the present savings and the mean of
\* the present delays of the row's group
GroupMetrics ==
    LET rows == Unwrap(report1)
        kept == SelectSeq(Collection, Report1Filter)
    IN  [i \in DOMAIN rows |->
            LET group == SelectSeq(kept, LAMBDA p : Report1Key(p) = RowKey(rows[i]))
            IN  [median_savings |-> median(Present(group, "cost_savings")),
                 avg_delay      |-> MeanPresentDelay(group)]]

\* C18: the raw efficiency of a group of report_regional_efficiency is
\* (median_savings / avg_delay) * 100 whenever avg_delay is not 0, a
\* negative avg_delay included, and 0 only when avg_delay is 0; a group
\* with negative median savings and negative average delay has a positive
\* raw score, which takes part in the minimum and maximum.
C18_RawEfficiency ==
    IsSome(report1) =>
        LET raws == Raws
            of   == GroupMetrics
        IN  \A i \in DOMAIN raws :
                IF of[i].avg_delay = F(0)
                THEN raws[i].raw = F(0)
                ELSE /\ raws[i].raw
                          = FMul(FDiv(of[i].median_savings, of[i].avg_delay), F(100))
                     /\ (FLt(of[i].median_savings, F(0)) /\ FLt(of[i].avg_delay, F(0))) =>
                            raws[i].raw \in PositiveRaws(raws)

\* C19: in every row of report_top_contractors the risk flag is a threshold
\* on the reliability index of that same row: "High Risk" iff the row's
\* reliability_index is below 50 and "OK" otherwise, and the
\* reliability_index lies in [0, 100].
C19_RiskFlag ==
    IsSome(report2) =>
        \A i \in DOMAIN Unwrap(report2) :
            LET row == Unwrap(report2)[i]
            IN  /\ row.risk_flag = "High Risk" <=> FLt(row.reliability_index, F(RiskThreshold))
                /\ row.risk_flag \in {"High Risk", "OK"}
                /\ FLe(F(0), row.reliability_index)
                /\ FLe(row.reliability_index, F(100))

(***************************************************************************)
(* main_menu with its environment: the file changes between two choices,   *)
(* and reading a record or writing a report can fail                       *)
(***************************************************************************)
MenuFiles ==
    {[readable |-> TRUE, headers |-> StdHeaders, records |-> rs] :
        rs \in {<<>>, <<RowNumeric>>, <<RowNumeric, RowLate>>, <<RowRefA, RowNumeric>>}}
      \cup {Unreadable}

ReportPcs == {"report1", "report2", "report3", "summary"}

InitMenu ==
    /\ pc = "menu"
    /\ choices = 0
    /\ file \in MenuFiles
    /\ NoLocals
    /\ loaded_projects = None
    /\ report1 = None
    /\ report2 = None
    /\ report3 = None
    /\ summary = None
    /\ NoMedianCall

\* somebody replaces dpwh_flood_control_projects.csv while the menu waits
FileChanges ==
    /\ pc = "menu"
    /\ file' \in MenuFiles \ {file}
    /\ UNCHANGED <<pc, choices, median_io, locals, loaded_projects, outputs>>

\* let record = result?; the reader fails on a record and load_file returns the error
RecordFails ==
    /\ pc = "pass1"
    /\ ~RecordsExhausted(pos, file.records)
    /\ pc' = "exit"
    /\ DropLocals
    /\ UNCHANGED <<choices, file, median_io, loaded_projects, outputs>>

\* a report file cannot be created: the report returns the error through
\* generate_reports and main_menu
ReportFails ==
    /\ pc \in ReportPcs
    /\ pc' = "exit"
    /\ UNCHANGED <<choices, file, median_io, locals, loaded_projects, outputs>>

NextMenu ==
    \/ Next
    \/ FileChanges
    \/ RecordFails
    \/ ReportFails

SpecMenu == InitMenu /\ [][NextMenu]_vars

(***************************************************************************)
(* Properties of main_menu                                                 *)
(***************************************************************************)
\* the step is a complete report of the collection main_menu holds
WritesReportOf(ps) ==
    \/ /\ pc = "report1"
       /\ \E order \in IterationOrders(Report1Keys(ps)) : report1' = Some(Report1Rows(ps, order))
       /\ UNCHANGED <<report2, report3, summary>>
    \/ /\ pc = "report2"
       /\ \E order \in IterationOrders(Report2Keys(ps)) : report2' = Some(Report2Rows(ps, order))
       /\ UNCHANGED <<report1, report3, summary>>
    \/ /\ pc = "report3"
       /\ \E order \in IterationOrders(Report3Keys(ps)) : report3' = Some(Report3Rows(ps, order))
       /\ UNCHANGED <<report1, report2, summary>>
    \/ /\ pc = "summary"
       /\ summary' = Some(SummaryOf(ps))
       /\ UNCHANGED <<report1, report2, report3>>

MenuStep ==
    \* nothing happens after main_menu has returned the error
    /\ pc # "exit"
    \* generate_reports runs only on a loaded collection
    /\ pc' \in ReportPcs => IsSome(loaded_projects) /\ IsSome(loaded_projects')
    \* the collection changes only when load_file returns Ok, to what it returns
    /\ loaded_projects' # loaded_projects =>
          /\ pc = "pass2"
          /\ pc' = "menu"
          /\ loaded_projects' = Some(LoadFile(file))
    \* a report is written only by generate_reports, from the collection held
    /\ outputs' # outputs =>
          /\ pc \in ReportPcs
          /\ IsSome(loaded_projects)
          /\ WritesReportOf(Unwrap(loaded_projects))
    \* choice "2" with nothing loaded and an invalid choice come back to the menu
    /\ (pc = "menu" /\ pc' = "menu" /\ choices' # choices) =>
          UNCHANGED <<loaded_projects, outputs>>
    \* choice "2" enters generate_reports exactly when something is loaded
    /\ (pc = "menu" /\ IsNone(loaded_projects)) => pc' \in {"menu", "pass1", "exit"}
    \* a failing load_file or generate_reports ends the loop
    /\ pc' = "exit" => UNCHANGED <<loaded_projects, outputs>>

\* C20: in main_menu, over any sequence of choices, generate_reports is
\* invoked only after a choice "1" whose load_file succeeded, and on the
\* collection returned by the most recent successful load; choice "2"
\* before any load and any choice other than "1" or "2" produce no report
\* and leave the loaded collection unchanged; a failing load_file or
\* generate_reports ends the loop, so that no report follows a failed load.
C20_MainMenu == [][MenuStep]_vars

\* all the choices are used, the file was replaced after the load, and the
\* four reports are those of the collection loaded before
C20_Witness ==
    /\ pc = "menu"
    /\ choices = MaxChoices
    /\ IsSome(loaded_projects)
    /\ Len(Unwrap(loaded_projects)) > 0
    /\ file.readable
    /\ Unwrap(loaded_projects) # LoadFile(file)
    /\ IsSome(report1) /\ IsSome(report2) /\ IsSome(report3)
    /\ summary = Some(SummaryOf(Unwrap(loaded_projects)))

(***************************************************************************)
(* Properties of report_top_contractors over the orders of its hash map    *)
(***************************************************************************)
\* what report_top_contractors writes for every order in which the hash
\* map of the groups can be iterated
Outcomes2(ps) == {Report2Rows(ps, order) : order \in IterationOrders(Report2Keys(ps))}

ContractorsIn(rows) == {rows[i].contractor : i \in DOMAIN rows}

\* C21: the output of report_top_contractors is a function of the filtered
\* collection alone: the contractors emitted and the order of their rows
\* are the same for every iteration order of the hash map of the groups,
\* also when contractors have equal total cost and when more than 15
\* qualify.
C21_Deterministic ==
    IsSome(report2) =>
        \A rows \in Outcomes2(Collection) :
            /\ ContractorsIn(rows) = Emitted2
            /\ rows = Unwrap(report2)

====
